---- MODULE Spec2Model ----
(***************************************************************************)
(* A model of surrealix-core: the schema compiler (schema.rs), the type    *)
(* tree (ast/mod.rs), the SELECT analyzer (analyzer/select.rs), the        *)
(* function signature table (analyzer/function) and Duration (types.rs).   *)
(*                                                                         *)
(* A run compiles one schema text (a sequence of parsed declarations) and  *)
(* then analyzes SELECT statements against the compiled schema, one at a   *)
(* time. The function signature table and the round trip of a Duration    *)
(* through its text have a state machine each.                             *)
(***************************************************************************)
EXTENDS Integers, Sequences, FiniteSets, TLC

VARIABLES decls, schema, stmt, result, pc, func, args, typed, input, dur, shown, back

vars == <<decls, schema, stmt, result, pc, func, args, typed, input, dur, shown, back>>

\* the variables of the SELECT analysis, those of a function analysis and
\* those of the round trip of a Duration
select_vars == <<decls, schema, stmt, result, pc>>

function_vars == <<func, args, typed>>

duration_vars == <<input, dur, shown, back>>

(***************************************************************************)
(* Bounds of the model.                                                    *)
(***************************************************************************)
\* the size of the largest generated statement: its projection items, OMIT
\* idioms and FETCH paths, one for each of VALUE and ONLY, and one for a FROM
\* other than the main table of the schema text
MaxClauses == 3

\* the most declarations of a short schema text
MaxDecls == 4

\* the most components of a duration text
MaxTokens == 2

(***************************************************************************)
(* The type tree: ast/mod.rs.                                              *)
(***************************************************************************)
NoLen == 0

Scalar(kind) == [tag |-> "Scalar", kind |-> kind]

Object(fields) == [tag |-> "Object", fields |-> fields]

Array(elem, len) == [tag |-> "Array", elem |-> elem, len |-> len]

Option(inner) == [tag |-> "Option", inner |-> inner]

Record(table) == [tag |-> "Record", table |-> table]

Union(variants) == [tag |-> "Union", variants |-> variants]

NoFields == [n \in {} |-> n]

FieldMetadata(name, path, perm) == [original_name |-> name, original_path |-> path, permissions |-> perm]

FieldInfo(ast, meta) == [ast |-> ast, meta |-> meta]

\* HashMap::insert: the new value replaces an entry of the same key
Insert(fields, name, info) == (name :> info) @@ fields

\* Permissions::default()
DefaultPermissions == "FULL"

\* the absence of a type (an Err carries none)
NoType == [tag |-> "None"]

Ok(ty) == [ok |-> TRUE, err |-> "", ty |-> ty]

Err(e) == [ok |-> FALSE, err |-> e, ty |-> NoType]

(***************************************************************************)
(* str::to_lowercase, letter by letter.                                    *)
(***************************************************************************)
LowerOf == [A |-> "a", B |-> "b", C |-> "c", D |-> "d", E |-> "e", F |-> "f", G |-> "g", H |-> "h", I |-> "i", J |-> "j", K |-> "k", L |-> "l", M |-> "m", N |-> "n", O |-> "o", P |-> "p", Q |-> "q", R |-> "r", S |-> "s", T |-> "t", U |-> "u", V |-> "v", W |-> "w", X |-> "x", Y |-> "y", Z |-> "z"]

RECURSIVE LowerFrom(_, _)
LowerFrom(s, i) ==
  IF i > Len(s) THEN ""
  ELSE LET c == SubSeq(s, i, i)
       IN (IF c \in DOMAIN LowerOf THEN LowerOf[c] ELSE c) \o LowerFrom(s, i + 1)

to_lowercase(s) == LowerFrom(s, 1)

(***************************************************************************)
(* Kinds of the parsed schema (surrealdb::sql::Kind) and their conversion. *)
(***************************************************************************)
NoKind == [k |-> "NoKind"]

KPrim(name) == [k |-> name]

KObject == [k |-> "Object"]

KRecord(table) == [k |-> "Record", table |-> table]

KOption(inner) == [k |-> "Option", inner |-> inner]

KArray(inner, len) == [k |-> "Array", inner |-> inner, len |-> len]

KSet(inner, len) == [k |-> "Set", inner |-> inner, len |-> len]

KEither(kinds) == [k |-> "Either", kinds |-> kinds]

\* impl From<Kind> for ScalarType
ScalarTypeFrom(kind) ==
  CASE kind.k = "Any" -> "Any"
    [] kind.k = "Null" -> "Null"
    [] kind.k = "Bool" -> "Boolean"
    [] kind.k = "Bytes" -> "Bytes"
    [] kind.k = "Datetime" -> "Datetime"
    [] kind.k = "Decimal" -> "Number"
    [] kind.k = "Duration" -> "Duration"
    [] kind.k = "Float" -> "Float"
    [] kind.k = "Int" -> "Integer"
    [] kind.k = "Number" -> "Number"
    [] kind.k = "String" -> "String"
    [] kind.k = "Uuid" -> "Uuid"
    [] kind.k = "Point" -> "Point"
    [] kind.k = "Geometry" -> "Geometry"

\* impl From<Kind> for TypeAST
RECURSIVE TypeFromKind(_)
TypeFromKind(kind) ==
  CASE kind.k = "Object" -> Object(NoFields)
    [] kind.k = "Record" -> Record(kind.table)
    [] kind.k = "Option" -> Option(TypeFromKind(kind.inner))
    [] kind.k \in {"Set", "Array"} -> Array(TypeFromKind(kind.inner), kind.len)
    [] kind.k = "Either" -> Union([i \in 1..Len(kind.kinds) |-> TypeFromKind(kind.kinds[i])])
    [] OTHER -> Scalar(ScalarTypeFrom(kind))

(***************************************************************************)
(* Idioms (surrealdb::sql::Idiom): sequences of parts.                     *)
(***************************************************************************)
PField(name) == [k |-> "Field", name |-> name, dir |-> ""]

PGraph(dir, what) == [k |-> "Graph", name |-> what, dir |-> dir]

PAll == [k |-> "All", name |-> "*", dir |-> ""]

PIndex == [k |-> "Index", name |-> "[0]", dir |-> ""]

\* Part's Display, as original_path records it
PartToString(part) ==
  CASE part.k = "Field" -> "." \o part.name
    [] part.k = "Graph" -> (IF part.dir = "Out" THEN "->" ELSE IF part.dir = "In" THEN "<-" ELSE "<->") \o part.name
    [] part.k = "All" -> "[*]"
    [] OTHER -> part.name

(***************************************************************************)
(* The schema compiler: schema.rs.                                         *)
(***************************************************************************)
DTable(name, perm) == [d |-> "Table", what |-> name, name |-> <<>>, kind |-> NoKind, permissions |-> perm]

DField(name, what, kind) == [d |-> "Field", what |-> what, name |-> name, kind |-> kind, permissions |-> DefaultPermissions]

DParam(name) == [d |-> "Param", what |-> name, name |-> <<>>, kind |-> NoKind, permissions |-> DefaultPermissions]

SOk(ast) == [ok |-> TRUE, err |-> "", ast |-> ast]

SErr(e) == [ok |-> FALSE, err |-> e, ast |-> NoType]

apply_table_definition(table_def, ast) ==
  IF ast.tag # "Object" THEN SErr("Unknown")
  ELSE LET table_name == table_def.what
           info == FieldInfo(Object(NoFields), FieldMetadata(table_name, <<table_name>>, table_def.permissions))
       IN SOk(Object(Insert(ast.fields, table_name, info)))

apply_param_definition(param_def, ast) == SOk(ast)

apply_definition(def, ast) ==
  CASE def.d = "Table" -> apply_table_definition(def, ast)
    [] def.d = "Param" -> apply_param_definition(def, ast)
    [] def.d = "Field" -> SErr("Unknown")
    [] OTHER -> SOk(ast)

\* a wildcard that leaves the element of the Array as it was
StarSelector_keeps_element(curr, field_type) ==
  IF curr.ast.tag = "Array" THEN SOk(curr) ELSE SErr("NonArrayStarSelector")

\* a wildcard that makes an Array of whatever node is under the cursor
StarSelector_on_any_node(curr, field_type) == SOk([curr EXCEPT !.ast = Array(field_type, NoLen)])

\* the last part of the path is a wildcard: the element of the Array under the
\* cursor takes the declared type
StarSelector(curr, field_type) ==
  IF curr.ast.tag = "Array"
  THEN SOk([curr EXCEPT !.ast = Array(field_type, curr.ast.len)])
  ELSE SErr("NonArrayStarSelector")

\* a parent entry recorded under the path of the declaration it is created for
ImplicitParent_with_child_path(field_def, field_name, path) ==
  FieldInfo(Object(NoFields),
            FieldMetadata(field_name,
                          <<path[1]>> \o [i \in DOMAIN field_def.name |-> field_def.name[i].name],
                          field_def.permissions))

\* or_insert_with: the entry created for a part of the path that has none
ImplicitParent(field_def, field_name, path) ==
  FieldInfo(Object(NoFields), FieldMetadata(field_name, path, field_def.permissions))

\* the walk of apply_field_definition from the table's entry: curr is the
\* entry the cursor is on, i the index of the next part of the path
RECURSIVE FieldWalk(_, _, _, _)
FieldWalk(curr, field_def, i, current_path) ==
  LET parts == field_def.name
      part == parts[i]
  IN IF i < Len(parts)
     THEN IF part.k # "Field" THEN SErr("Unknown")
          ELSE LET field_name == part.name
                   path == Append(current_path, field_name)
               IN IF curr.ast.tag # "Object" THEN SErr("MissingParentObject")
                  ELSE LET child == IF field_name \in DOMAIN curr.ast.fields
                                    THEN curr.ast.fields[field_name]
                                    ELSE ImplicitParent(field_def, field_name, path)
                           r == FieldWalk(child, field_def, i + 1, path)
                       IN IF r.ok
                          THEN SOk([curr EXCEPT !.ast = Object(Insert(curr.ast.fields, field_name, r.ast))])
                          ELSE r
     ELSE LET field_type == IF field_def.kind = NoKind THEN Scalar("Any") ELSE TypeFromKind(field_def.kind)
          IN CASE part.k = "All" ->
                    StarSelector(curr, field_type)
               [] part.k = "Field" ->
                    IF curr.ast.tag = "Object"
                    THEN LET new_field == FieldInfo(
                                 IF field_def.kind.k = "Array" THEN Array(Scalar("Any"), NoLen) ELSE field_type,
                                 FieldMetadata(part.name, Append(current_path, part.name), field_def.permissions))
                         IN SOk([curr EXCEPT !.ast = Object(Insert(curr.ast.fields, part.name, new_field))])
                    ELSE SOk(curr)
               [] OTHER -> SErr("Unknown")

apply_field_definition(field_def, ast) ==
  IF ast.tag # "Object" THEN SErr("Unknown")
  ELSE LET table_name == to_lowercase(field_def.what)
       IN IF table_name \notin DOMAIN ast.fields THEN SErr("NonExistentTableReference")
          ELSE LET r == FieldWalk(ast.fields[table_name], field_def, 1, <<table_name>>)
               IN IF r.ok THEN SOk(Object(Insert(ast.fields, table_name, r.ast))) ELSE r

\* the first loop of analyze_schema: field definitions are set aside, every
\* other definition is applied in source order
RECURSIVE ApplyDefinitions(_, _, _)
ApplyDefinitions(statements, i, ast) ==
  IF i > Len(statements) THEN SOk(ast)
  ELSE IF statements[i].d = "Field" THEN ApplyDefinitions(statements, i + 1, ast)
       ELSE LET r == apply_definition(statements[i], ast)
            IN IF r.ok THEN ApplyDefinitions(statements, i + 1, r.ast) ELSE r

IsFieldDefinition(def) == def.d = "Field"

\* no sort: the field definitions stay in source order
SortByDepth_keeps_source_order(defs) == defs

\* Vec::sort_by on the path depth: a stable sort
RECURSIVE SortByDepth(_)
SortByDepth(defs) ==
  IF Len(defs) <= 1 THEN defs
  ELSE LET n == Len(defs)
           last == defs[n]
           front == SortByDepth(SubSeq(defs, 1, n - 1))
           Keep(d) == Len(d.name) <= Len(last.name)
           Move(d) == Len(d.name) > Len(last.name)
       IN SelectSeq(front, Keep) \o <<last>> \o SelectSeq(front, Move)

RECURSIVE ApplyFieldDefinitions(_, _, _)
ApplyFieldDefinitions(defs, i, ast) ==
  IF i > Len(defs) THEN SOk(ast)
  ELSE LET r == apply_field_definition(defs[i], ast)
       IN IF r.ok THEN ApplyFieldDefinitions(defs, i + 1, r.ast) ELSE r

analyze_schema(statements) ==
  LET first == ApplyDefinitions(statements, 1, Object(NoFields))
      field_definitions == SortByDepth(SelectSeq(statements, IsFieldDefinition))
  IN IF first.ok THEN ApplyFieldDefinitions(field_definitions, 1, first.ast) ELSE first

(***************************************************************************)
(* Helpers on strings and type trees used by the analyzer.                 *)
(***************************************************************************)
\* str::starts_with
starts_with(s, prefix) == Len(s) >= Len(prefix) /\ SubSeq(s, 1, Len(prefix)) = prefix

\* s.split("->").last(): the text after the last "->" of s, s when it has none
RECURSIVE LastAfterArrow(_, _)
LastAfterArrow(s, i) ==
  IF i < 1 THEN s
  ELSE IF SubSeq(s, i, i + 1) = "->" THEN SubSeq(s, i + 2, Len(s))
       ELSE LastAfterArrow(s, i - 1)

split_last(s) == LastAfterArrow(s, Len(s) - 1)

\* [String]::join("->")
RECURSIVE join(_)
join(path) ==
  IF Len(path) = 0 THEN ""
  ELSE IF Len(path) = 1 THEN path[1]
       ELSE path[1] \o "->" \o join(Tail(path))

\* HashMap::values().next(): the iteration order of a HashMap is not fixed;
\* h names the entry the iteration yields first when the map holds it
FirstValue(fields, h) ==
  IF h \in DOMAIN fields THEN fields[h] ELSE fields[CHOOSE n \in DOMAIN fields : TRUE]

(***************************************************************************)
(* TypeAST::resolve_idiom and TypeAST::replace_record_links: ast/mod.rs.   *)
(***************************************************************************)
RECURSIVE ResolveIdiomFrom(_, _, _)
ResolveIdiomFrom(current, idiom, i) ==
  IF i > Len(idiom) THEN Ok(current)
  ELSE LET part == idiom[i]
       IN CASE current.tag = "Object" /\ part.k = "Field" ->
                 IF part.name \in DOMAIN current.fields
                 THEN ResolveIdiomFrom(current.fields[part.name].ast, idiom, i + 1)
                 ELSE Err("AstError::UnknownField")
            [] current.tag = "Array" /\ part.k = "All" ->
                 ResolveIdiomFrom(current.elem, idiom, i + 1)
            [] OTHER -> Err("AstError::InvalidFieldType")

resolve_idiom(self, idiom) == ResolveIdiomFrom(self, idiom, 1)

\* the `?` of a loop of recursive calls: the whole when all succeed, else a failure
FirstFailure(results, whole) ==
  IF \A i \in DOMAIN results : results[i].ok THEN Ok(whole)
  ELSE results[CHOOSE i \in DOMAIN results : ~results[i].ok]

RECURSIVE replace_record_links(_, _)
replace_record_links(self, schema_ast) ==
  CASE self.tag = "Object" ->
         LET rs == [n \in DOMAIN self.fields |-> replace_record_links(self.fields[n].ast, schema_ast)]
         IN FirstFailure(rs, Object([n \in DOMAIN self.fields |-> [self.fields[n] EXCEPT !.ast = rs[n].ty]]))
    [] self.tag = "Array" ->
         LET r == replace_record_links(self.elem, schema_ast)
         IN IF r.ok THEN Ok(Array(r.ty, self.len)) ELSE r
    [] self.tag = "Record" ->
         IF schema_ast.tag = "Object"
         THEN IF self.table \in DOMAIN schema_ast.fields
              THEN Ok(schema_ast.fields[self.table].ast)
              ELSE Err("AstError::UnknownField")
         ELSE Ok(self)
    [] self.tag = "Union" ->
         LET rs == [i \in DOMAIN self.variants |-> replace_record_links(self.variants[i], schema_ast)]
         IN FirstFailure(rs, Union([i \in DOMAIN self.variants |-> rs[i].ty]))
    [] OTHER -> Ok(self)

(***************************************************************************)
(* The SELECT statement (surrealdb::sql::statements::SelectStatement).     *)
(***************************************************************************)
NoAlias == ""

VTable(name) == [v |-> "Table", name |-> name]

VThing(name) == [v |-> "Thing", name |-> name]

FAll == [f |-> "All", v |-> "", idiom |-> <<>>, alias |-> NoAlias]

FIdiom(idiom, alias) == [f |-> "Single", v |-> "Idiom", idiom |-> idiom, alias |-> alias]

FFunction(name) == [f |-> "Single", v |-> "Function", idiom |-> <<>>, alias |-> NoAlias]

FLiteral == [f |-> "Single", v |-> "Strand", idiom |-> <<>>, alias |-> NoAlias]

Select(what, items, value, omit, fetch, only) == [what |-> what, expr |-> items, value |-> value, omit |-> omit, fetch |-> fetch, only |-> only]

(***************************************************************************)
(* The SELECT analyzer: analyzer/select.rs.                                *)
(***************************************************************************)
ROk(name, ty) == [ok |-> TRUE, err |-> "", name |-> name, ty |-> ty]

RErr(e) == [ok |-> FALSE, err |-> e, name |-> "", ty |-> NoType]

\* an analyze_from that takes an absent table for a table without fields
analyze_from_widens(schema_obj, what) ==
  IF Len(what) > 0 /\ what[1].v = "Table"
  THEN LET key == to_lowercase(what[1].name)
       IN IF key \in DOMAIN schema_obj.fields
          THEN Ok(schema_obj.fields[key].ast)
          ELSE Ok(Object(NoFields))
  ELSE Err("UnsupportedOperation")

analyze_from(schema_obj, what) ==
  IF Len(what) > 0 /\ what[1].v = "Table"
  THEN LET key == to_lowercase(what[1].name)
       IN IF key \in DOMAIN schema_obj.fields
          THEN Ok(schema_obj.fields[key].ast)
          ELSE Err("UnknownField")
  ELSE Err("UnsupportedOperation")

\* a match of the field name against the whole OMIT idiom
is_field_omitted_by_whole_idiom(field_name, omit) ==
  \E i \in DOMAIN omit : omit[i] = <<[k |-> "Field", name |-> field_name, dir |-> ""]>>

is_field_omitted(field_name, omit) ==
  \E i \in DOMAIN omit :
    Len(omit[i]) > 0 /\ omit[i][1].k = "Field" /\ omit[i][1].name = field_name

\* a find_relation_field that reads the sides the other way round
find_relation_field_swapped(edge_obj, dir) ==
  IF "id" \in DOMAIN edge_obj.fields THEN ROk("id", Record("user"))
  ELSE IF dir \notin {"Out", "In"} THEN RErr("UnsupportedOperation")
  ELSE LET primary == IF dir = "Out" THEN "in" ELSE "out"
           fallback == IF dir = "Out" THEN "out" ELSE "in"
       IN IF primary \notin DOMAIN edge_obj.fields /\ fallback \notin DOMAIN edge_obj.fields
          THEN RErr("UnknownField")
          ELSE LET field == IF primary \in DOMAIN edge_obj.fields
                            THEN edge_obj.fields[primary]
                            ELSE edge_obj.fields[fallback]
               IN IF field.ast.tag = "Record"
                  THEN ROk(field.meta.original_name, Record(field.ast.table))
                  ELSE RErr("InvalidFieldType")

find_relation_field(edge_obj, dir) ==
  IF "id" \in DOMAIN edge_obj.fields THEN ROk("id", Record("user"))
  ELSE IF dir \notin {"Out", "In"} THEN RErr("UnsupportedOperation")
  ELSE LET primary == IF dir = "Out" THEN "out" ELSE "in"
           fallback == IF dir = "Out" THEN "in" ELSE "out"
       IN IF primary \notin DOMAIN edge_obj.fields /\ fallback \notin DOMAIN edge_obj.fields
          THEN RErr("UnknownField")
          ELSE LET field == IF primary \in DOMAIN edge_obj.fields
                            THEN edge_obj.fields[primary]
                            ELSE edge_obj.fields[fallback]
               IN IF field.ast.tag = "Record"
                  THEN ROk(field.meta.original_name, Record(field.ast.table))
                  ELSE RErr("InvalidFieldType")

\* where the loop of resolve_graph_traversal stops: the type under the cursor,
\* the traversal path, and whether a final wildcard ended the loop
Cursor(current_type, traversal_path, star) == [ok |-> TRUE, err |-> "", cur |-> current_type, path |-> traversal_path, star |-> star]

CErr(e) == [ok |-> FALSE, err |-> e, cur |-> NoType, path |-> <<>>, star |-> FALSE]

\* the loop of resolve_graph_traversal over the parts of the idiom, from part i on
RECURSIVE TraverseFrom(_, _, _, _, _)
TraverseFrom(schema_ast, idiom, i, current_type, traversal_path) ==
  IF i > Len(idiom) THEN Cursor(current_type, traversal_path, FALSE)
  ELSE LET part == idiom[i]
       IN CASE part.k = "Field" ->
                 LET field_name == part.name
                 IN CASE current_type.tag = "Object" ->
                           IF field_name \in DOMAIN current_type.fields
                           THEN TraverseFrom(schema_ast, idiom, i + 1, current_type.fields[field_name].ast,
                                             Append(traversal_path, field_name))
                           ELSE CErr("UnknownField")
                      [] current_type.tag = "Array" ->
                           TraverseFrom(schema_ast, idiom, i + 1, current_type.elem,
                                        Append(traversal_path, field_name))
                      [] current_type.tag = "Record" ->
                           IF schema_ast.tag # "Object" THEN CErr("InvalidSchema")
                           ELSE IF current_type.table \notin DOMAIN schema_ast.fields THEN CErr("UnknownField")
                           ELSE LET record_info == schema_ast.fields[current_type.table]
                                IN IF record_info.ast.tag # "Object" THEN CErr("InvalidFieldType")
                                   ELSE IF field_name \in DOMAIN record_info.ast.fields
                                        THEN TraverseFrom(schema_ast, idiom, i + 1,
                                                          record_info.ast.fields[field_name].ast,
                                                          Append(traversal_path, field_name))
                                        ELSE CErr("UnknownField")
                      [] OTHER -> CErr("InvalidFieldType")
            [] part.k = "Graph" ->
                 LET edge_table == part.name
                 IN IF part.dir \notin {"Out", "In"} THEN CErr("UnsupportedOperation")
                    ELSE LET field_name == (IF part.dir = "Out" THEN "->" ELSE "<-") \o edge_table
                             path == Append(traversal_path, field_name)
                         IN IF schema_ast.tag # "Object" THEN CErr("InvalidSchema")
                            ELSE IF edge_table \notin DOMAIN schema_ast.fields THEN CErr("UnknownField")
                            ELSE LET edge_table_info == schema_ast.fields[edge_table]
                                 IN IF edge_table_info.ast.tag # "Object" THEN CErr("InvalidFieldType")
                                    ELSE LET rel == find_relation_field(edge_table_info.ast, part.dir)
                                             relation_field == rel.name
                                             target_table == rel.ty.table
                                         IN IF ~rel.ok THEN CErr(rel.err)
                                            ELSE IF target_table \notin DOMAIN schema_ast.fields
                                                 THEN CErr("UnknownField")
                                                 ELSE TraverseFrom(schema_ast, idiom, i + 1,
                                                        schema_ast.fields[target_table].ast,
                                                        (IF relation_field # "id" THEN Append(path, relation_field) ELSE path)
                                                          \o <<target_table>>)
            [] part.k = "All" /\ i = Len(idiom) ->
                 Cursor(current_type, Append(traversal_path, "*"), TRUE)
            [] OTHER -> CErr("UnsupportedOperation")

\* a returned type without the array around the cursor
TraversalType_without_array(c) == c.cur

\* the type resolve_graph_traversal returns for the place the loop stopped at:
\* an array around the cursor after a final wildcard or a path of several segments
TraversalType(c) ==
  IF c.star \/ Len(c.path) > 1 THEN Array(c.cur, NoLen) ELSE c.cur

\* what resolve_graph_traversal returns for the place c the loop stopped at:
\* the joined traversal path and the type, or the error of the loop
TraversalResult(c) ==
  IF c.ok THEN ROk(join(c.path), TraversalType(c)) ELSE RErr(c.err)

resolve_graph_traversal(schema_ast, base_type, idiom) ==
  TraversalResult(TraverseFrom(schema_ast, idiom, 1, base_type, <<>>))

\* a result name that leaves the alias aside
ResultName_without_alias(alias, field_name) ==
  IF starts_with(field_name, "->") \/ starts_with(field_name, "<-")
  THEN split_last(field_name)
  ELSE field_name

\* the result name of a projection item: its alias, else a name derived
\* from the canonical name
ResultName(alias, field_name) ==
  IF alias # NoAlias THEN alias
  ELSE IF starts_with(field_name, "->") \/ starts_with(field_name, "<-")
       THEN split_last(field_name)
       ELSE field_name

\* the table name apply_field_selection takes from the first entry of the base object
BaseTableName(base_obj, h) ==
  IF DOMAIN base_obj.fields = {} THEN "unknown"
  ELSE LET path == FirstValue(base_obj.fields, h).meta.original_path
       IN IF Len(path) > 0 THEN path[1] ELSE "unknown"

\* Field::All: every entry of the base object but the omitted ones
SelectAll(base_obj, table_name, omit, result_fields) ==
  LET kept == {n \in DOMAIN base_obj.fields : ~is_field_omitted(n, omit)}
      copied == [n \in kept |->
                   [base_obj.fields[n] EXCEPT !.meta.original_path = <<table_name>> \o @]]
  IN copied @@ result_fields

\* an insertion that keeps the entry the result already holds under the name
InsertSingle_keeps_first(r, table_name, field, omit, result_fields) ==
  LET result_name == ResultName(field.alias, r.name)
      original_path == <<table_name>> \o [i \in DOMAIN field.idiom |-> PartToString(field.idiom[i])]
      field_info == FieldInfo(r.ty, FieldMetadata(r.name, original_path, DefaultPermissions))
  IN IF ~r.ok THEN Err(r.err)
     ELSE IF is_field_omitted(result_name, omit) THEN Ok(Object(result_fields))
     ELSE Ok(Object(result_fields @@ (result_name :> field_info)))

\* an insertion that matches OMIT against the canonical name
InsertSingle_omits_canonical(r, table_name, field, omit, result_fields) ==
  LET result_name == ResultName(field.alias, r.name)
      original_path == <<table_name>> \o [i \in DOMAIN field.idiom |-> PartToString(field.idiom[i])]
      field_info == FieldInfo(r.ty, FieldMetadata(r.name, original_path, DefaultPermissions))
  IN IF ~r.ok THEN Err(r.err)
     ELSE IF is_field_omitted(r.name, omit) THEN Ok(Object(result_fields))
     ELSE Ok(Object(Insert(result_fields, result_name, field_info)))

\* Field::Single with an idiom, r being what resolve_graph_traversal returned
\* for it: the entry is inserted under its result name unless OMIT names it
InsertSingle(r, table_name, field, omit, result_fields) ==
  LET result_name == ResultName(field.alias, r.name)
      original_path == <<table_name>> \o [i \in DOMAIN field.idiom |-> PartToString(field.idiom[i])]
      field_info == FieldInfo(r.ty, FieldMetadata(r.name, original_path, DefaultPermissions))
  IN IF ~r.ok THEN Err(r.err)
     ELSE IF is_field_omitted(result_name, omit) THEN Ok(Object(result_fields))
     ELSE Ok(Object(Insert(result_fields, result_name, field_info)))

\* Field::Single with an idiom
SelectSingle(schema_ast, base_type, table_name, field, omit, result_fields) ==
  InsertSingle(resolve_graph_traversal(schema_ast, base_type, field.idiom),
               table_name, field, omit, result_fields)

\* a loop that passes over the items whose expression is no idiom
RECURSIVE SelectFrom_skips_other_expressions(_, _, _, _, _, _, _)
SelectFrom_skips_other_expressions(schema_ast, base_type, table_name, expr, omit, i, result_obj) ==
  IF ~result_obj.ok \/ i > Len(expr) THEN result_obj
  ELSE LET field == expr[i]
       IN IF field.f = "All"
          THEN SelectFrom_skips_other_expressions(schema_ast, base_type, table_name, expr, omit, i + 1,
                          Ok(Object(SelectAll(base_type, table_name, omit, result_obj.ty.fields))))
          ELSE IF field.v = "Idiom"
               THEN SelectFrom_skips_other_expressions(schema_ast, base_type, table_name, expr, omit, i + 1,
                               SelectSingle(schema_ast, base_type, table_name, field, omit, result_obj.ty.fields))
               ELSE SelectFrom_skips_other_expressions(schema_ast, base_type, table_name, expr, omit, i + 1, result_obj)

\* the loop of apply_field_selection over the projection list, from item i
\* on: result_obj is Ok with the object built by the items before i, or the
\* failure of one of them, which ends the loop
RECURSIVE SelectFrom(_, _, _, _, _, _, _)
SelectFrom(schema_ast, base_type, table_name, expr, omit, i, result_obj) ==
  IF ~result_obj.ok \/ i > Len(expr) THEN result_obj
  ELSE LET field == expr[i]
       IN IF field.f = "All"
          THEN SelectFrom(schema_ast, base_type, table_name, expr, omit, i + 1,
                          Ok(Object(SelectAll(base_type, table_name, omit, result_obj.ty.fields))))
          ELSE IF field.v = "Idiom"
               THEN SelectFrom(schema_ast, base_type, table_name, expr, omit, i + 1,
                               SelectSingle(schema_ast, base_type, table_name, field, omit, result_obj.ty.fields))
               ELSE Err("UnsupportedOperation")

apply_field_selection(schema_ast, base_type, expr, omit, h) ==
  IF base_type.tag # "Object" THEN Err("InvalidFieldType")
  ELSE SelectFrom(schema_ast, base_type, BaseTableName(base_type, h), expr, omit, 1, Ok(Object(NoFields)))

\* a Step 3 that passes over the paths that resolve to no record link
RECURSIVE FetchFrom_skips_other_types(_, _, _, _)
FetchFrom_skips_other_types(schema_ast, fetch, i, selected_type) ==
  IF i > Len(fetch) THEN Ok(selected_type)
  ELSE LET fetched_ast == resolve_idiom(selected_type, fetch[i])
           replaced == replace_record_links(selected_type, schema_ast)
       IN IF ~fetched_ast.ok THEN fetched_ast
          ELSE IF \/ fetched_ast.ty.tag = "Record"
                  \/ (fetched_ast.ty.tag = "Array" /\ fetched_ast.ty.elem.tag = "Record")
               THEN IF replaced.ok
                    THEN FetchFrom_skips_other_types(schema_ast, fetch, i + 1, replaced.ty)
                    ELSE replaced
               ELSE FetchFrom_skips_other_types(schema_ast, fetch, i + 1, selected_type)

\* Step 3 of analyze_select: the loop over the fetch paths, from path i on
RECURSIVE FetchFrom(_, _, _, _)
FetchFrom(schema_ast, fetch, i, selected_type) ==
  IF i > Len(fetch) THEN Ok(selected_type)
  ELSE LET fetched_ast == resolve_idiom(selected_type, fetch[i])
           replaced == replace_record_links(selected_type, schema_ast)
       IN IF ~fetched_ast.ok THEN fetched_ast
          ELSE IF \/ fetched_ast.ty.tag = "Record"
                  \/ (fetched_ast.ty.tag = "Array" /\ fetched_ast.ty.elem.tag = "Record")
               THEN IF replaced.ok THEN FetchFrom(schema_ast, fetch, i + 1, replaced.ty) ELSE replaced
               ELSE Err("UnsupportedOperation")

apply_fetch(schema_ast, fetch, selected_type) == FetchFrom(schema_ast, fetch, 1, selected_type)

\* a Step 4 that hands the single field's type over with its array
value_type_keeps_array(stmt_expr, stmt_value, selected_type, h) ==
  IF Len(stmt_expr) = 1 /\ stmt_value
  THEN IF selected_type.tag = "Object"
       THEN IF DOMAIN selected_type.fields # {}
            THEN Ok(FirstValue(selected_type.fields, h).ast)
            ELSE Err("InvalidFieldType")
       ELSE Err("InvalidFieldType")
  ELSE Ok(selected_type)

\* Step 4 of analyze_select: the VALUE keyword
value_type(stmt_expr, stmt_value, selected_type, h) ==
  IF Len(stmt_expr) = 1 /\ stmt_value
  THEN IF selected_type.tag = "Object"
       THEN IF DOMAIN selected_type.fields # {}
            THEN LET field == FirstValue(selected_type.fields, h)
                 IN IF field.ast.tag = "Array" THEN Ok(field.ast.elem) ELSE Ok(field.ast)
            ELSE Err("InvalidFieldType")
       ELSE Err("InvalidFieldType")
  ELSE Ok(selected_type)

\* a Step 5 that wraps the rows in an array whether ONLY is set or not
final_type_always_wraps(only, value) == Array(value, NoLen)

\* Step 5 of analyze_select: the array around the rows unless ONLY
final_type(only, value) == IF only THEN value ELSE Array(value, NoLen)

\* analyze_select behind Step 4: the failure of the step, or Step 5 on its type
WrapStep(s, value) ==
  IF ~value.ok THEN value ELSE Ok(final_type(s.only, value.ty))

\* analyze_select behind Step 3: the failure of the step, or Step 4 on its type
ValueStep(s, h, fetched) ==
  IF ~fetched.ok THEN fetched
  ELSE WrapStep(s, value_type(s.expr, s.value, fetched.ty, h))

\* analyze_select behind Step 2: the failure of the step, or Step 3 on its type
FetchStep(schema_ast, s, h, selected) ==
  IF ~selected.ok THEN selected
  ELSE ValueStep(s, h, apply_fetch(schema_ast, s.fetch, selected.ty))

\* analyze_select behind Step 1: the failure of the step, or Step 2 on its type
SelectStep(schema_ast, s, h, base_type) ==
  IF ~base_type.ok THEN base_type
  ELSE FetchStep(schema_ast, s, h, apply_field_selection(schema_ast, base_type.ty, s.expr, s.omit, h))

analyze_select(schema_ast, s, h) ==
  IF schema_ast.tag # "Object" THEN Err("InvalidSchema")
  ELSE SelectStep(schema_ast, s, h, analyze_from(schema_ast, s.what))

(***************************************************************************)
(* The schema texts of the model, as the parser hands them over.           *)
(***************************************************************************)
Path1(a) == <<PField(a)>>

Path2(a, b) == <<PField(a), PField(b)>>

StarOf(a) == <<PField(a), PAll>>

\* create_test_schema of the analyzer's tests
ReferenceSchema ==
  << DTable("user", "FULL"),
     DField(Path1("id"), "user", KPrim("Uuid")),
     DField(Path1("name"), "user", KPrim("String")),
     DField(Path1("age"), "user", KPrim("Number")),
     DField(Path1("address"), "user", KObject),
     DField(Path2("address", "city"), "user", KPrim("String")),
     DField(Path2("address", "zip"), "user", KPrim("Number")),
     DField(Path2("address", "state"), "user", KPrim("String")),
     DField(Path2("address", "street"), "user", KPrim("String")),
     DField(Path1("tags"), "user", KArray(KPrim("Any"), NoLen)),
     DField(StarOf("tags"), "user", KRecord("tag")),
     DField(Path1("best_friend"), "user", KRecord("user")),
     DTable("friend", "FULL"),
     DField(Path1("in"), "friend", KRecord("user")),
     DField(Path1("out"), "friend", KRecord("user")),
     DTable("tag", "FULL"),
     DField(Path1("id"), "tag", KPrim("Uuid")),
     DField(Path1("name"), "tag", KPrim("String")),
     DField(Path1("value"), "tag", KPrim("Number")) >>

\* a schema without id fields: edge tables with both, one or no relation
\* field, and record links inside optional, union and array kinds
GraphSchema ==
  << DTable("person", "FULL"),
     DField(Path1("name"), "person", KPrim("String")),
     DField(Path1("home"), "person", KRecord("city")),
     DField(Path1("mentor"), "person", KOption(KRecord("person"))),
     DField(Path1("contact"), "person", KEither(<<KPrim("String"), KRecord("city")>>)),
     DField(Path1("visited"), "person", KArray(KPrim("Any"), NoLen)),
     DField(StarOf("visited"), "person", KRecord("city")),
     DField(Path1("nicknames"), "person", KArray(KPrim("Any"), NoLen)),
     DField(StarOf("nicknames"), "person", KPrim("String")),
     DParam("limit"),
     DTable("city", "NONE"),
     DField(Path1("name"), "city", KPrim("Number")),
     DField(Path1("twin"), "city", KRecord("ghost")),
     DTable("likes", "FULL"),
     DField(Path1("in"), "likes", KRecord("person")),
     DField(Path1("out"), "likes", KRecord("city")),
     DTable("born_in", "FULL"),
     DField(Path1("out"), "born_in", KRecord("city")),
     DTable("rules", "FULL"),
     DField(Path1("in"), "rules", KRecord("person")),
     DTable("rated", "FULL"),
     DField(Path1("in"), "rated", KRecord("person")),
     DField(Path1("out"), "rated", KPrim("Number")),
     DTable("bare", "FULL") >>

\* a schema whose table names are written with capitals, in the table
\* declaration or in the field declaration
CaseSchema ==
  << DTable("Post", "FULL"),
     DTable("note", "FULL"),
     DField(Path1("title"), "Note", KPrim("String")),
     DField(Path1("about"), "note", KRecord("note")) >>

\* a schema whose graph segments name tables that have an id field: post and
\* user; an author wrote posts
WroteSchema ==
  << DTable("author", "FULL"),
     DField(Path1("id"), "author", KPrim("Uuid")),
     DField(Path1("name"), "author", KPrim("String")),
     DTable("post", "FULL"),
     DField(Path1("id"), "post", KPrim("Uuid")),
     DField(Path1("title"), "post", KPrim("String")),
     DTable("user", "FULL"),
     DField(Path1("id"), "user", KPrim("Uuid")),
     DField(Path1("title"), "user", KPrim("Number")),
     DTable("wrote", "FULL"),
     DField(Path1("in"), "wrote", KRecord("author")),
     DField(Path1("out"), "wrote", KRecord("post")) >>

\* a cut of create_test_schema with an array of objects: the fields that
\* chains of field segments, several FETCH paths and longer OMIT idioms use
ProfileSchema ==
  << DTable("user", "FULL"),
     DField(Path1("name"), "user", KPrim("String")),
     DField(Path1("address"), "user", KObject),
     DField(Path2("address", "city"), "user", KPrim("String")),
     DField(Path1("tags"), "user", KArray(KPrim("Any"), NoLen)),
     DField(StarOf("tags"), "user", KRecord("tag")),
     DField(Path1("posts"), "user", KArray(KPrim("Any"), NoLen)),
     DField(StarOf("posts"), "user", KObject),
     DField(Path1("best_friend"), "user", KRecord("user")),
     DTable("tag", "FULL"),
     DField(Path1("name"), "tag", KPrim("String")),
     DField(Path1("value"), "tag", KPrim("Number")) >>

SeqsUpTo(S, n) == UNION {[1..k -> S] : k \in 0..n}

\* the declarations short schema texts on the table t are written from: the
\* table under two spellings, a field a under several kinds, fields and a
\* wildcard below it, and a wildcard on the table itself
PlainDecls ==
  { DTable("t", "FULL"),
    DTable("T", "NONE"),
    DField(Path1("a"), "t", KObject),
    DField(Path1("a"), "t", KPrim("String")),
    DField(Path1("a"), "t", KArray(KPrim("Int"), 5)),
    DField(Path1("a"), "T", KOption(KPrim("Bool"))),
    DField(Path2("a", "b"), "t", KPrim("Number")),
    DField(<<PField("a"), PField("b"), PField("c")>>, "t", KPrim("String")),
    DField(StarOf("a"), "t", KRecord("t")),
    DField(<<PAll>>, "t", KPrim("String")) }

\* no declaration is written twice
NoRepeat(text) == \A i, j \in DOMAIN text : text[i] = text[j] => i = j

\* the schema texts of at most MaxDecls declarations
PlainTexts == {text \in SeqsUpTo(PlainDecls, MaxDecls) : NoRepeat(text)}

SchemaTexts == {ReferenceSchema, GraphSchema, CaseSchema, WroteSchema, ProfileSchema} \cup PlainTexts

(***************************************************************************)
(* The statements of the model: projection items, OMIT idioms and FETCH    *)
(* paths are drawn from a catalogue written for the schema text.           *)
(***************************************************************************)
Out(edge) == PGraph("Out", edge)

In(edge) == PGraph("In", edge)

ReferenceItems ==
  { FAll,
    FFunction("count"),
    FIdiom(Path1("age"), NoAlias),
    FIdiom(Path1("tags"), NoAlias),
    FIdiom(Path1("best_friend"), NoAlias),
    FIdiom(Path1("nonexistent"), NoAlias),
    FIdiom(Path1("name"), "full_name"),
    FIdiom(Path1("age"), "full_name"),
    FIdiom(<<Out("friend"), Out("user"), PField("name")>>, "friend_names"),
    FIdiom(<<In("friend"), In("user"), PField("name")>>, "follower_names"),
    FIdiom(<<Out("friend"), Out("user"), PAll>>, "friends"),
    FIdiom(<<Out("friend"), Out("user"), Out("friend"), Out("user"), PField("name")>>, "fof"),
    FIdiom(<<Out("friend"), Out("user"), PField("address"), PAll>>, "homes") }

ReferenceOmits == << Path1("age"), Path1("name"), Path1("full_name") >>

ReferenceFetches == { Path1("tags"), Path1("best_friend"), Path1("age"), Path1("address"), Path1("nonexistent") }

ReferenceFroms == { <<VTable("user")>>, <<VTable("User")>>, <<VTable("tag")>>, <<VTable("ghost")>>, <<VThing("user:one")>> }

GraphItems ==
  { FAll,
    FIdiom(Path1("name"), NoAlias),
    FIdiom(Path1("home"), NoAlias),
    FIdiom(Path1("mentor"), NoAlias),
    FIdiom(Path1("contact"), NoAlias),
    FIdiom(Path1("nicknames"), NoAlias),
    FIdiom(<<Out("likes")>>, NoAlias),
    FIdiom(<<In("likes")>>, NoAlias),
    FIdiom(<<Out("likes"), PField("name")>>, "liked"),
    FIdiom(<<In("born_in")>>, NoAlias),
    FIdiom(<<Out("rules")>>, NoAlias),
    FIdiom(<<Out("bare")>>, NoAlias),
    FIdiom(<<Out("rated")>>, NoAlias) }

GraphOmits == << Path1("name"), Path1("liked"), Path1("home") >>

GraphFetches == { Path1("home"), Path1("mentor"), Path1("contact"), Path1("nicknames"), Path1("twin") }

GraphFroms == { <<VTable("person")>>, <<VTable("city")>>, <<VTable("ghost")>> }

CaseItems == { FAll, FIdiom(Path1("title"), NoAlias), FIdiom(Path1("about"), "topic") }

CaseOmits == << Path1("title") >>

CaseFetches == { Path1("topic"), Path1("title") }

CaseFroms == { <<VTable("note")>>, <<VTable("Note")>>, <<VTable("Post")>>, <<VTable("post")>> }

WroteItems ==
  { FIdiom(Path1("name"), NoAlias),
    FIdiom(<<Out("wrote")>>, NoAlias),
    FIdiom(<<Out("wrote"), Out("post")>>, NoAlias),
    FIdiom(<<Out("wrote"), Out("post"), PField("title")>>, NoAlias),
    FIdiom(<<Out("wrote"), Out("post"), PAll>>, NoAlias),
    FIdiom(<<Out("wrote"), Out("post"), PAll>>, "posts") }

WroteFroms == { <<VTable("author")>> }

ProfileItems ==
  { FAll,
    FIdiom(Path1("name"), NoAlias),
    FIdiom(Path2("address", "city"), NoAlias),
    FIdiom(Path2("best_friend", "name"), NoAlias),
    FIdiom(Path2("tags", "name"), NoAlias),
    FIdiom(Path2("tags", "nonexistent"), NoAlias),
    FIdiom(Path2("posts", "title"), NoAlias),
    FLiteral }

ProfileOmits == << Path2("address", "city"), <<Out("tags")>> >>

ProfileFetches == { Path1("tags"), Path1("best_friend"), Path2("best_friend", "best_friend") }

ProfileFroms == { <<VTable("user")>> }

\* the statements on any other schema text: every field of its table t
PlainItems == { FAll }

PlainFroms == { <<VTable("t")>> }

Items(text) ==
  IF text = ReferenceSchema THEN ReferenceItems
  ELSE IF text = GraphSchema THEN GraphItems
  ELSE IF text = CaseSchema THEN CaseItems
  ELSE IF text = WroteSchema THEN WroteItems
  ELSE IF text = ProfileSchema THEN ProfileItems
  ELSE PlainItems

Omits(text) ==
  IF text = ReferenceSchema THEN ReferenceOmits
  ELSE IF text = GraphSchema THEN GraphOmits
  ELSE IF text = CaseSchema THEN CaseOmits
  ELSE IF text = ProfileSchema THEN ProfileOmits
  ELSE <<>>

Fetches(text) ==
  IF text = ReferenceSchema THEN ReferenceFetches
  ELSE IF text = GraphSchema THEN GraphFetches
  ELSE IF text = CaseSchema THEN CaseFetches
  ELSE IF text = ProfileSchema THEN ProfileFetches
  ELSE {}

Froms(text) ==
  IF text = ReferenceSchema THEN ReferenceFroms
  ELSE IF text = GraphSchema THEN GraphFroms
  ELSE IF text = CaseSchema THEN CaseFroms
  ELSE IF text = WroteSchema THEN WroteFroms
  ELSE IF text = ProfileSchema THEN ProfileFroms
  ELSE PlainFroms

\* the table the statements of a schema text select from unless they name another
MainFrom(text) ==
  IF text = ReferenceSchema THEN <<VTable("user")>>
  ELSE IF text = GraphSchema THEN <<VTable("person")>>
  ELSE IF text = CaseSchema THEN <<VTable("note")>>
  ELSE IF text = WroteSchema THEN <<VTable("author")>>
  ELSE IF text = ProfileSchema THEN <<VTable("user")>>
  ELSE <<VTable("t")>>

\* the idioms of the catalogue at the indexes of chosen, in catalogue order
RECURSIVE Chosen(_, _, _)
Chosen(catalogue, chosen, i) ==
  IF i > Len(catalogue) THEN <<>>
  ELSE (IF i \in chosen THEN <<catalogue[i]>> ELSE <<>>) \o Chosen(catalogue, chosen, i + 1)

Flag(b) == IF b THEN 1 ELSE 0

\* the size of a statement: its projection items, OMIT idioms and FETCH
\* paths, one for each of VALUE and ONLY, one for a FROM other than the main table
Size(text, s) ==
  Len(s.expr) + Len(s.omit) + Len(s.fetch) + Flag(s.value) + Flag(s.only) + Flag(s.what # MainFrom(text))

\* the entries HashMap iteration may yield first where analyze_select reads
\* the first entry of a map of several: the VALUE step on a one-item list
HashFirsts(schema_ast, s) ==
  LET base == analyze_from(schema_ast, s.what)
  IN IF s.value /\ Len(s.expr) = 1 /\ base.ok /\ base.ty.tag = "Object" /\ DOMAIN base.ty.fields # {}
     THEN DOMAIN base.ty.fields
     ELSE {""}

NoStmt == Select(<<>>, <<>>, FALSE, <<>>, <<>>, FALSE)

NoResult == Err("None")

(***************************************************************************)
(* The function signature table: analyzer/function.                        *)
(***************************************************************************)
\* Permissions::full() and Permissions::none()
PermsFull == "FULL"

PermsNone == "NONE"

NoInner == [query_type |-> [q |-> "None"], perms |-> "", panicked |-> FALSE]

TypedQuery(query_type, perms) == [query_type |-> query_type, perms |-> perms, panicked |-> FALSE]

\* the call does not return: an index out of bounds or a todo!()
Panicked(why) == [query_type |-> [q |-> "None"], perms |-> why, panicked |-> TRUE]

QScalar(kind) == [q |-> "Scalar", kind |-> kind]

QArray(inner, len) == [q |-> "Array", inner |-> inner, len |-> len]

QObject == [q |-> "Object"]

QOption(inner) == [q |-> "Option", inner |-> inner]

\* str::split("::")
RECURSIVE SplitFrom(_, _, _)
SplitFrom(s, i, start) ==
  IF i > Len(s) THEN <<SubSeq(s, start, Len(s))>>
  ELSE IF i < Len(s) /\ SubSeq(s, i, i + 1) = "::"
       THEN <<SubSeq(s, start, i - 1)>> \o SplitFrom(s, i + 2, i + 2)
       ELSE SplitFrom(s, i + 1, start)

split(name) == SplitFrom(name, 1, 1)

\* parts.get(k): k counts from 0; NoPart where the name has no such segment
NoPart == "<none>"

Get(parts, k) == IF k < Len(parts) THEN parts[k + 1] ELSE NoPart

\* array.rs
get_array_inner_type(query_type) ==
  IF query_type.q = "Array" /\ query_type.inner # NoInner THEN query_type.inner.query_type ELSE NoInner.query_type

array_identity(fn_args) ==
  IF fn_args # <<>> THEN fn_args[1] ELSE TypedQuery(QArray(NoInner, NoLen), PermsNone)

array_at(fn_args) ==
  IF fn_args # <<>> /\ get_array_inner_type(fn_args[1].query_type) # NoInner.query_type
  THEN TypedQuery(get_array_inner_type(fn_args[1].query_type), PermsNone)
  ELSE TypedQuery(QScalar("Any"), PermsNone)

array_clump(fn_args) ==
  IF fn_args # <<>> THEN TypedQuery(QArray(fn_args[1], NoLen), PermsNone)
  ELSE TypedQuery(QArray(NoInner, NoLen), PermsNone)

array_flatten(fn_args) ==
  IF /\ fn_args # <<>>
     /\ get_array_inner_type(fn_args[1].query_type) # NoInner.query_type
     /\ get_array_inner_type(get_array_inner_type(fn_args[1].query_type)) # NoInner.query_type
  THEN TypedQuery(QArray(TypedQuery(get_array_inner_type(get_array_inner_type(fn_args[1].query_type)), PermsNone), NoLen), PermsNone)
  ELSE TypedQuery(QArray(NoInner, NoLen), PermsNone)

ArrayIdentityNames ==
  { "array::add", "array::append", "array::combine", "array::concat", "array::difference",
    "array::distinct", "array::group", "array::insert", "array::intersect", "array::pop",
    "array::prepend", "array::push", "array::remove", "array::reverse", "array::shuffle",
    "array::sort", "array::slice", "array::transpose", "array::union" }

ArrayElementNames == { "array::first", "array::last", "array::max", "array::min" }

ArrayNames ==
  ArrayIdentityNames \cup ArrayElementNames
    \cup { "array::all", "array::any", "array::len", "array::find_index", "array::join",
           "array::at", "array::clump", "array::flatten" }

analyze_array(name, fn_args) ==
  CASE name \in ArrayIdentityNames -> array_identity(fn_args)
    [] name \in {"array::all", "array::any"} -> TypedQuery(QScalar("Bool"), PermsNone)
    [] name \in {"array::len", "array::find_index"} -> TypedQuery(QScalar("Int"), PermsNone)
    [] name = "array::join" -> TypedQuery(QScalar("String"), PermsNone)
    [] name = "array::at" -> array_at(fn_args)
    [] name = "array::clump" -> array_clump(fn_args)
    [] name = "array::flatten" -> array_flatten(fn_args)
    [] name \in ArrayElementNames -> array_at(fn_args)
    [] OTHER -> TypedQuery(QScalar("Any"), PermsNone)

\* crypto.rs
CryptoHashes == { "md5", "sha1", "sha256", "sha512" }

CryptoPasswords == { "argon2", "bcrypt", "pbkdf2", "scrypt" }

analyze_crypto(parts) ==
  IF Len(parts) < 2 THEN Panicked("index out of bounds")
  ELSE CASE parts[2] \in CryptoHashes -> TypedQuery(QScalar("String"), PermsNone)
         [] parts[2] \in CryptoPasswords ->
              IF Len(parts) < 3 THEN Panicked("index out of bounds")
              ELSE CASE parts[3] = "compare" -> TypedQuery(QScalar("Bool"), PermsNone)
                     [] parts[3] = "generate" -> TypedQuery(QScalar("String"), PermsNone)
                     [] OTHER -> TypedQuery(QScalar("Any"), PermsNone)
         [] OTHER -> TypedQuery(QScalar("Any"), PermsNone)

\* duration.rs
DurationUnits == { "days", "hours", "micros", "millis", "mins", "nanos", "secs", "weeks" }

analyze_duration(parts) ==
  IF Len(parts) < 2 THEN Panicked("index out of bounds")
  ELSE CASE parts[2] \in DurationUnits \cup {"years"} -> TypedQuery(QScalar("Number"), PermsNone)
         [] parts[2] = "from" ->
              IF Len(parts) < 3 THEN Panicked("index out of bounds")
              ELSE IF parts[3] \in DurationUnits THEN TypedQuery(QScalar("Duration"), PermsNone)
                   ELSE TypedQuery(QScalar("Any"), PermsNone)
         [] OTHER -> TypedQuery(QScalar("Any"), PermsNone)

\* math.rs
MathNumbers ==
  { "e", "pi", "tau", "inf", "abs", "ceil", "floor", "round", "sqrt", "fixed", "max", "min",
    "mean", "median", "mode", "product", "sum", "interquartile", "midhinge", "spread",
    "stddev", "trimean", "variance", "percentile", "nearestrank" }

analyze_math(parts) ==
  IF Len(parts) < 2 THEN Panicked("index out of bounds")
  ELSE CASE parts[2] \in MathNumbers -> TypedQuery(QScalar("Number"), PermsNone)
         [] parts[2] \in {"bottom", "top"} ->
              TypedQuery(QArray(TypedQuery(QScalar("Number"), PermsNone), NoLen), PermsNone)
         [] OTHER -> TypedQuery(QScalar("Any"), PermsNone)

\* object.rs
ObjectNames == { "entries", "from_entries", "keys", "len", "values" }

analyze_object(parts) ==
  IF Len(parts) < 2 THEN Panicked("index out of bounds")
  ELSE CASE parts[2] = "entries" ->
              TypedQuery(QArray(TypedQuery(QArray(TypedQuery(QScalar("Any"), PermsNone), 2), PermsNone), NoLen), PermsNone)
         [] parts[2] = "from_entries" -> TypedQuery(QObject, PermsNone)
         [] parts[2] = "keys" -> TypedQuery(QArray(TypedQuery(QScalar("String"), PermsNone), NoLen), PermsNone)
         [] parts[2] = "len" -> TypedQuery(QScalar("Int"), PermsNone)
         [] parts[2] = "values" -> TypedQuery(QArray(TypedQuery(QScalar("Any"), PermsNone), NoLen), PermsNone)
         [] OTHER -> TypedQuery(QScalar("Any"), PermsNone)

\* parse.rs
ParseStrings ==
  { <<"email", "host">>, <<"email", "user">>, <<"url", "domain">>, <<"url", "fragment">>,
    <<"url", "host">>, <<"url", "path">>, <<"url", "query">> }

analyze_parse(parts) ==
  IF Len(parts) < 3 THEN Panicked("index out of bounds")
  ELSE CASE <<parts[2], parts[3]>> \in ParseStrings ->
              TypedQuery(QOption(TypedQuery(QScalar("String"), PermsFull)), PermsNone)
         [] <<parts[2], parts[3]>> = <<"url", "port">> ->
              TypedQuery(QOption(TypedQuery(QScalar("Int"), PermsFull)), PermsNone)
         [] OTHER -> TypedQuery(QScalar("Any"), PermsNone)

\* rand.rs
RandNames == { "bool", "enum", "float", "guid", "int", "string", "time", "uuid", "ulid" }

analyze_rand(parts) ==
  LET fn == Get(parts, 1)
  IN CASE fn = "bool" -> TypedQuery(QScalar("Bool"), PermsNone)
       [] fn = "enum" -> TypedQuery(QScalar("Any"), PermsNone)
       [] fn = "float" -> TypedQuery(QScalar("Float"), PermsNone)
       [] fn \in {"guid", "string", "ulid"} -> TypedQuery(QScalar("String"), PermsNone)
       [] fn = "int" -> TypedQuery(QScalar("Int"), PermsNone)
       [] fn = "time" -> TypedQuery(QScalar("Datetime"), PermsNone)
       [] fn = "uuid" -> TypedQuery(QScalar("Uuid"), PermsNone)
       [] fn = NoPart -> TypedQuery(QScalar("Float"), PermsNone)
       [] OTHER -> TypedQuery(QScalar("Any"), PermsNone)

\* search.rs
SearchNames == { "score", "highlight", "offsets" }

analyze_search(parts) ==
  LET fn == Get(parts, 1)
  IN CASE fn = "score" -> TypedQuery(QArray(TypedQuery(QScalar("Float"), PermsNone), NoLen), PermsNone)
       [] fn = "highlight" -> TypedQuery(QArray(TypedQuery(QScalar("String"), PermsNone), NoLen), PermsNone)
       [] fn = "offsets" -> TypedQuery(QArray(TypedQuery(QObject, PermsNone), NoLen), PermsNone)
       [] OTHER -> TypedQuery(QArray(TypedQuery(QScalar("Any"), PermsNone), NoLen), PermsNone)

\* string.rs
StringStrings ==
  { "concat", "join", "lowercase", "repeat", "replace", "reverse", "slice", "slug", "trim", "uppercase" }

StringTests ==
  { "alphanum", "alpha", "ascii", "datetime", "domain", "email", "hexadecimal", "latitude",
    "longitude", "numeric", "semver", "url", "uuid" }

analyze_string(parts) ==
  LET fn == Get(parts, 1)
      sub == Get(parts, 2)
  IN CASE fn \in StringStrings -> TypedQuery(QScalar("String"), PermsNone)
       [] fn \in {"contains", "endsWith", "startsWith"} -> TypedQuery(QScalar("Bool"), PermsNone)
       [] fn = "len" -> TypedQuery(QScalar("Int"), PermsNone)
       [] fn \in {"split", "words"} -> TypedQuery(QArray(TypedQuery(QScalar("String"), PermsNone), NoLen), PermsNone)
       [] fn = "is" ->
            IF sub \in StringTests THEN TypedQuery(QScalar("Bool"), PermsNone)
            ELSE TypedQuery(QScalar("Any"), PermsNone)
       [] fn = "semver" ->
            CASE sub \in {"compare", "major", "minor", "patch"} -> TypedQuery(QScalar("Int"), PermsNone)
              [] sub \in {"inc", "set"} -> TypedQuery(QScalar("String"), PermsNone)
              [] OTHER -> TypedQuery(QScalar("Any"), PermsNone)
       [] OTHER -> TypedQuery(QScalar("Any"), PermsNone)

\* time.rs
TimeInts ==
  { "day", "hour", "minute", "month", "second", "wday", "week", "yday", "year", "micros",
    "millis", "nano", "unix" }

TimeDatetimes == { "floor", "round", "group", "now", "max", "min" }

analyze_time(parts) ==
  LET fn == Get(parts, 1)
      sub == Get(parts, 2)
  IN CASE fn \in TimeInts -> TypedQuery(QScalar("Int"), PermsNone)
       [] fn \in TimeDatetimes -> TypedQuery(QScalar("Datetime"), PermsNone)
       [] fn \in {"format", "timezone"} -> TypedQuery(QScalar("String"), PermsNone)
       [] fn = "from" ->
            IF sub \in {"micros", "millis", "nanos", "secs", "unix"}
            THEN TypedQuery(QScalar("Datetime"), PermsNone)
            ELSE TypedQuery(QScalar("Any"), PermsNone)
       [] OTHER -> TypedQuery(QScalar("Any"), PermsNone)

\* datatype.rs
TypeConversions ==
  [ bool |-> "Bool", datetime |-> "Datetime", decimal |-> "Decimal", duration |-> "Duration",
    float |-> "Float", int |-> "Int", number |-> "Number", point |-> "Geometry",
    string |-> "String", table |-> "String" ]

analyze_datatype(parts) ==
  LET fn == Get(parts, 1)
  IN CASE fn \in DOMAIN TypeConversions -> TypedQuery(QScalar(TypeConversions[fn]), PermsNone)
       [] fn \in {"thing", "range"} -> Panicked("not yet implemented")
       [] fn \in {"field", "fields"} -> TypedQuery(QScalar("Any"), PermsNone)
       [] fn = "is" ->
            IF Get(parts, 2) # NoPart THEN TypedQuery(QScalar("Bool"), PermsNone)
            ELSE TypedQuery(QScalar("Any"), PermsNone)
       [] OTHER -> TypedQuery(QScalar("Any"), PermsNone)

\* vector.rs
VectorArrays == { "add", "cross", "divide", "multiply", "normalize", "project", "subtract" }

VectorDistances == { "chebyshev", "euclidean", "hamming", "manhattan", "minkowski" }

VectorSimilarities == { "cosine", "jaccard", "pearson" }

analyze_vector(parts) ==
  LET fn == Get(parts, 1)
      sub == Get(parts, 2)
  IN CASE fn \in VectorArrays -> TypedQuery(QArray(TypedQuery(QScalar("Number"), PermsNone), NoLen), PermsNone)
       [] fn \in {"angle", "dot", "magnitude"} -> TypedQuery(QScalar("Float"), PermsNone)
       [] fn = "distance" ->
            IF sub \in VectorDistances THEN TypedQuery(QScalar("Float"), PermsNone)
            ELSE TypedQuery(QScalar("Any"), PermsNone)
       [] fn = "similarity" ->
            IF sub \in VectorSimilarities THEN TypedQuery(QScalar("Float"), PermsNone)
            ELSE TypedQuery(QScalar("Any"), PermsNone)
       [] OTHER -> TypedQuery(QScalar("Any"), PermsNone)

\* the arms of analyze_function that match parts[1] and parts[2] themselves
analyze_meta(parts) ==
  IF Len(parts) < 2 THEN Panicked("index out of bounds")
  ELSE IF parts[2] \in {"id", "tb"} THEN TypedQuery(QScalar("String"), PermsNone)
       ELSE Panicked("not yet implemented")

analyze_encoding(parts) ==
  IF Len(parts) < 2 THEN Panicked("index out of bounds")
  ELSE IF parts[2] = "base64"
       THEN IF Len(parts) < 3 THEN Panicked("index out of bounds")
            ELSE CASE parts[3] = "encode" -> TypedQuery(QScalar("String"), PermsNone)
                   [] parts[3] = "decode" -> TypedQuery(QScalar("Bytes"), PermsNone)
                   [] OTHER -> TypedQuery(QScalar("Any"), PermsNone)
       ELSE TypedQuery(QScalar("Any"), PermsNone)

analyze_http(parts) ==
  IF Len(parts) < 2 THEN Panicked("index out of bounds")
  ELSE IF parts[2] = "head" THEN TypedQuery(QScalar("Null"), PermsNone)
       ELSE TypedQuery(QScalar("Any"), PermsNone)

Namespaces ==
  { "array", "crypto", "duration", "math", "object", "parse", "rand", "search", "type",
    "vector", "session", "sleep", "string", "time", "meta", "encoding", "http", "count" }

\* mod.rs
analyze_function(name, fn_args) ==
  LET parts == split(name)
  IN CASE parts[1] = "array" -> analyze_array(name, fn_args)
       [] parts[1] = "crypto" -> analyze_crypto(parts)
       [] parts[1] = "duration" -> analyze_duration(parts)
       [] parts[1] = "math" -> analyze_math(parts)
       [] parts[1] = "object" -> analyze_object(parts)
       [] parts[1] = "parse" -> analyze_parse(parts)
       [] parts[1] = "rand" -> analyze_rand(parts)
       [] parts[1] = "search" -> analyze_search(parts)
       [] parts[1] = "type" -> analyze_datatype(parts)
       [] parts[1] = "vector" -> analyze_vector(parts)
       [] parts[1] = "session" -> TypedQuery(QScalar("String"), PermsFull)
       [] parts[1] = "sleep" -> TypedQuery(QScalar("Null"), PermsNone)
       [] parts[1] = "string" -> analyze_string(parts)
       [] parts[1] = "time" -> analyze_time(parts)
       [] parts[1] = "meta" -> analyze_meta(parts)
       [] parts[1] = "encoding" -> analyze_encoding(parts)
       [] parts[1] = "http" -> analyze_http(parts)
       [] parts[1] = "count" -> TypedQuery(QScalar("Int"), PermsFull)
       [] OTHER -> TypedQuery(QScalar("Any"), PermsFull)

\* the function names of the model: for every namespace names the table
\* holds, names it does not hold, and names that stop short
FunctionNames ==
  { "array::len", "array::add", "array::first", "array::at", "array::clump", "array::flatten",
    "array::any", "array::join", "array::bogus", "array",
    "crypto::md5", "crypto::argon2::compare", "crypto::argon2::generate", "crypto::argon2",
    "crypto::argon2::bogus", "crypto::bogus", "crypto",
    "duration::days", "duration::from::days", "duration::from", "duration::from::bogus", "duration::bogus",
    "math::pi", "math::top", "math::bogus", "math",
    "object::entries", "object::from_entries", "object::keys", "object::len", "object::values", "object::bogus",
    "parse::email::host", "parse::url::port", "parse::url::bogus", "parse::email",
    "rand", "rand::bool", "rand::enum", "rand::uuid::v4", "rand::bogus",
    "search::score", "search::highlight", "search::offsets", "search::bogus",
    "type::bool", "type::point", "type::thing", "type::range", "type::field", "type::is::array",
    "type::is", "type::bogus",
    "vector::add", "vector::dot", "vector::distance::hamming", "vector::distance::bogus",
    "vector::similarity::cosine", "vector::bogus",
    "session::id", "sleep",
    "string::len", "string::concat", "string::contains", "string::split", "string::is::email",
    "string::is::bogus", "string::semver::compare", "string::semver::inc", "string::bogus",
    "time::now", "time::day", "time::format", "time::from::secs", "time::from::bogus", "time::bogus",
    "meta::id", "meta::tb", "meta::bogus", "meta",
    "encoding::base64::encode", "encoding::base64::decode", "encoding::base64::bogus",
    "encoding::base64", "encoding::bogus",
    "http::head", "http::get", "http::bogus",
    "count", "bogus", "bogus::len", "not" }

\* the argument lists of the model: none, a string, an array of integers, an
\* array of arrays of integers
FunctionArgs ==
  { <<>>,
    <<TypedQuery(QScalar("String"), PermsFull)>>,
    <<TypedQuery(QArray(TypedQuery(QScalar("Int"), PermsFull), NoLen), PermsFull)>>,
    <<TypedQuery(QArray(TypedQuery(QArray(TypedQuery(QScalar("Int"), PermsNone), NoLen), PermsFull), NoLen), PermsFull)>> }

NoFunction == ""

NoTyped == TypedQuery([q |-> "None"], "")

(***************************************************************************)
(* Duration and its text: types.rs.                                        *)
(***************************************************************************)
\* std::time::Duration: whole seconds and the nanoseconds below one second
StdDuration(secs, nanos) == [secs |-> secs, nanos |-> nanos]

from_nanos(value) == StdDuration(value \div 1000000000, value % 1000000000)

from_micros(value) == StdDuration(value \div 1000000, (value % 1000000) * 1000)

from_millis(value) == StdDuration(value \div 1000, (value % 1000) * 1000000)

from_secs(value) == StdDuration(value, 0)

\* total += d
Plus(total, d) ==
  StdDuration(total.secs + d.secs + (total.nanos + d.nanos) \div 1000000000,
              (total.nanos + d.nanos) % 1000000000)

\* Result<Duration, _>
DOk(d) == [st |-> "Ok", secs |-> d.secs, nanos |-> d.nanos]

DErr == [st |-> "Err", secs |-> 0, nanos |-> 0]

NoDuration == [st |-> "None", secs |-> 0, nanos |-> 0]

NoShown == ""

DecimalDigits == "0123456789"

\* char::is_digit(10)
is_digit(c) == \E k \in 1..10 : SubSeq(DecimalDigits, k, k) = c

DigitValue(c) == (CHOOSE k \in 1..10 : SubSeq(DecimalDigits, k, k) = c) - 1

\* current_number.parse::<u64>().unwrap_or(0): the empty text gives 0
RECURSIVE parse_u64(_)
parse_u64(number) ==
  IF Len(number) = 0 THEN 0
  ELSE parse_u64(SubSeq(number, 1, Len(number) - 1)) * 10 + DigitValue(SubSeq(number, Len(number), Len(number)))

\* the loop of from_str over the characters of s, from character i on
RECURSIVE FromStrLoop(_, _, _, _)
FromStrLoop(s, i, current_number, total) ==
  IF i > Len(s) THEN DOk(total)
  ELSE LET c == SubSeq(s, i, i)
           value == parse_u64(current_number)
           peek_is_s == i < Len(s) /\ SubSeq(s, i + 1, i + 1) = "s"
       IN IF is_digit(c) THEN FromStrLoop(s, i + 1, current_number \o c, total)
          ELSE CASE c = "n" -> FromStrLoop(s, i + 1, "", Plus(total, from_nanos(value)))
                 [] c = "u" -> FromStrLoop(s, i + 1, "", Plus(total, from_micros(value)))
                 [] c = "m" /\ peek_is_s -> FromStrLoop(s, i + 2, "", Plus(total, from_millis(value)))
                 [] c = "s" -> FromStrLoop(s, i + 1, "", Plus(total, from_secs(value)))
                 [] c = "m" /\ ~peek_is_s -> FromStrLoop(s, i + 1, "", Plus(total, from_secs(value * 60)))
                 [] c = "h" -> FromStrLoop(s, i + 1, "", Plus(total, from_secs(value * 3600)))
                 [] c = "d" -> FromStrLoop(s, i + 1, "", Plus(total, from_secs(value * 86400)))
                 [] c = "w" -> FromStrLoop(s, i + 1, "", Plus(total, from_secs(value * 604800)))
                 [] c = "y" -> FromStrLoop(s, i + 1, "", Plus(total, from_secs(value * 31536000)))
                 [] OTHER -> DErr

\* <Duration as FromStr>::from_str
from_str(s) == FromStrLoop(s, 1, "", StdDuration(0, 0))

\* format!("{}", n) of an unsigned integer
RECURSIVE FormatU64(_)
FormatU64(n) ==
  IF n < 10 THEN SubSeq(DecimalDigits, n + 1, n + 1)
  ELSE FormatU64(n \div 10) \o SubSeq(DecimalDigits, (n % 10) + 1, (n % 10) + 1)

\* result.push_str(&format!("{}unit", n)) under its condition
Pushed(condition, n, unit) == IF condition THEN FormatU64(n) \o unit ELSE ""

\* the days Display reads off the seconds
days_shown(secs) == (secs % 604800) \div 86400

\* <Duration as Display>::fmt
to_string(d) ==
  LET secs == d.secs
      nanos == d.nanos
      weeks == (secs % 31536000) \div 604800
      days == days_shown(secs)
      hours == (secs % 86400) \div 3600
      minutes == (secs % 3600) \div 60
      seconds == secs % 60
  IN IF secs = 0 /\ nanos = 0 THEN "0s"
     ELSE Pushed(secs >= 31536000, secs \div 31536000, "y")
            \o Pushed(secs >= 604800 /\ weeks > 0, weeks, "w")
            \o Pushed(secs >= 86400 /\ days > 0, days, "d")
            \o Pushed(secs >= 3600 /\ hours > 0, hours, "h")
            \o Pushed(secs >= 60 /\ minutes > 0, minutes, "m")
            \o Pushed(seconds > 0, seconds, "s")
            \o Pushed(nanos > 0, nanos, "ns")

\* the components duration texts are written from: every unit, a number
\* without a unit and a character that is no unit
DurationTokens ==
  { "1y", "2y", "52w", "1w", "6d", "1d", "23h", "1h", "59m", "59s",
    "1500ms", "7us", "5ns", "999999999n", "0", "x" }

RECURSIVE Concat(_)
Concat(tokens) == IF Len(tokens) = 0 THEN "" ELSE Head(tokens) \o Concat(Tail(tokens))

\* the duration texts of at most MaxTokens components
DurationTexts == {Concat(tokens) : tokens \in SeqsUpTo(DurationTokens, MaxTokens)}

(***************************************************************************)
(* The state machine.                                                      *)
(***************************************************************************)
Init ==
  /\ decls \in SchemaTexts
  /\ schema = SErr("NotCompiled")
  /\ stmt = NoStmt
  /\ result = NoResult
  /\ pc = "start"
  /\ func = NoFunction
  /\ args = <<>>
  /\ typed = NoTyped
  /\ input = ""
  /\ dur = NoDuration
  /\ shown = NoShown
  /\ back = NoDuration

\* analyze_schema(parsed)
Compile ==
  /\ pc = "start"
  /\ schema' = analyze_schema(decls)
  /\ pc' = "ready"
  /\ UNCHANGED <<decls, stmt, result>>
  /\ UNCHANGED function_vars
  /\ UNCHANGED duration_vars

\* an analysis whose FETCH expansion replaces the record links of the shared
\* Schema as well
Analyze_expands_in_place ==
  /\ pc = "ready"
  /\ schema.ok
  /\ \E k \in 1..MaxClauses :
       \E items \in [1..k -> Items(decls)] :
         \E chosen \in {c \in SUBSET (1..Len(Omits(decls))) : Cardinality(c) <= MaxClauses - k} :
           \E fetch \in SeqsUpTo(Fetches(decls), MaxClauses - k - Cardinality(chosen)) :
             \E value, only \in BOOLEAN :
               \E what \in Froms(decls) :
                 LET s == Select(what, items, value, Chosen(Omits(decls), chosen, 1), fetch, only)
                     expanded == replace_record_links(schema.ast, schema.ast)
                 IN /\ Size(decls, s) <= MaxClauses
                    /\ \E h \in HashFirsts(schema.ast, s) :
                         /\ stmt' = s
                         /\ result' = analyze_select(schema.ast, s, h)
                    /\ schema' = IF fetch # <<>> /\ expanded.ok THEN SOk(expanded.ty) ELSE schema
  /\ pc' = "done"
  /\ UNCHANGED decls
  /\ UNCHANGED function_vars
  /\ UNCHANGED duration_vars

\* analyze_select(&schema, &stmt) on a statement of at most MaxClauses clauses
Analyze ==
  /\ pc = "ready"
  /\ schema.ok
  /\ \E k \in 1..MaxClauses :
       \E items \in [1..k -> Items(decls)] :
         \E chosen \in {c \in SUBSET (1..Len(Omits(decls))) : Cardinality(c) <= MaxClauses - k} :
           \E fetch \in SeqsUpTo(Fetches(decls), MaxClauses - k - Cardinality(chosen)) :
             \E value, only \in BOOLEAN :
               \E what \in Froms(decls) :
                 LET s == Select(what, items, value, Chosen(Omits(decls), chosen, 1), fetch, only)
                 IN /\ Size(decls, s) <= MaxClauses
                    /\ \E h \in HashFirsts(schema.ast, s) :
                         /\ stmt' = s
                         /\ result' = analyze_select(schema.ast, s, h)
  /\ pc' = "done"
  /\ UNCHANGED <<decls, schema>>
  /\ UNCHANGED function_vars
  /\ UNCHANGED duration_vars

\* the caller takes the result; the schema stays for the next statement
Return ==
  /\ pc = "done"
  /\ stmt' = NoStmt
  /\ result' = NoResult
  /\ pc' = "ready"
  /\ UNCHANGED <<decls, schema>>
  /\ UNCHANGED function_vars
  /\ UNCHANGED duration_vars

Next == Compile \/ Analyze \/ Return

Spec == Init /\ [][Next]_vars

(***************************************************************************)
(* The state machine of a function analysis: one call of analyze_function  *)
(* on a function name and the types of its arguments.                      *)
(***************************************************************************)
FunctionInit ==
  /\ decls = <<>>
  /\ schema = SErr("NotCompiled")
  /\ stmt = NoStmt
  /\ result = NoResult
  /\ pc = "start"
  /\ func \in FunctionNames
  /\ args \in FunctionArgs
  /\ typed = NoTyped
  /\ input = ""
  /\ dur = NoDuration
  /\ shown = NoShown
  /\ back = NoDuration

\* analyze_function(&func, args)
AnalyzeFunction ==
  /\ func # NoFunction
  /\ typed = NoTyped
  /\ typed' = analyze_function(func, args)
  /\ UNCHANGED <<func, args>>
  /\ UNCHANGED select_vars
  /\ UNCHANGED duration_vars

FunctionNext == AnalyzeFunction

FunctionSpec == FunctionInit /\ [][FunctionNext]_vars

(***************************************************************************)
(* The state machine of a Duration: it is parsed from a text, written out  *)
(* and parsed again from what was written.                                 *)
(***************************************************************************)
DurationInit ==
  /\ decls = <<>>
  /\ schema = SErr("NotCompiled")
  /\ stmt = NoStmt
  /\ result = NoResult
  /\ pc = "start"
  /\ func = NoFunction
  /\ args = <<>>
  /\ typed = NoTyped
  /\ input \in DurationTexts
  /\ dur = NoDuration
  /\ shown = NoShown
  /\ back = NoDuration

\* Duration::from_str(input)
FromStr ==
  /\ dur = NoDuration
  /\ dur' = from_str(input)
  /\ UNCHANGED <<input, shown, back>>
  /\ UNCHANGED select_vars
  /\ UNCHANGED function_vars

\* d.to_string()
Display ==
  /\ dur.st = "Ok"
  /\ shown = NoShown
  /\ shown' = to_string(dur)
  /\ UNCHANGED <<input, dur, back>>
  /\ UNCHANGED select_vars
  /\ UNCHANGED function_vars

\* Duration::from_str(&d.to_string())
FromStrAgain ==
  /\ shown # NoShown
  /\ back = NoDuration
  /\ back' = from_str(shown)
  /\ UNCHANGED <<input, dur, shown>>
  /\ UNCHANGED select_vars
  /\ UNCHANGED function_vars

DurationNext == FromStr \/ Display \/ FromStrAgain

DurationSpec == DurationInit /\ [][DurationNext]_vars

(***************************************************************************)
(* What the claims speak of, in the state of an analyzed statement.        *)
(***************************************************************************)
Analyzed == pc = "done"

\* the base type of the statement: Step 1 of analyze_select
Base == analyze_from(schema.ast, stmt.what)

\* the projected object: Step 2 of analyze_select
Projected == apply_field_selection(schema.ast, Base.ty, stmt.expr, stmt.omit, "")

\* the projected object after FETCH: Step 3 of analyze_select
Fetched == apply_fetch(schema.ast, stmt.fetch, Projected.ty)

\* the result before the cardinality wrap of Step 5
Inner == IF stmt.only THEN result.ty ELSE result.ty.elem

\* the FROM clause names a table, and the schema holds it under that name
FromNames(t) == Len(stmt.what) > 0 /\ stmt.what[1] = VTable(t)

\* the results analyze_select may return for statement s
Outcomes(s) == {analyze_select(schema.ast, s, h) : h \in HashFirsts(schema.ast, s)}

(***************************************************************************)
(* C1: for any compiled schema and any table t in it, SELECT * FROM t      *)
(* (no OMIT, FETCH, VALUE or ONLY) yields Array(Object) whose field names  *)
(* are exactly t's top-level field names, each with its schema type.       *)
(* The code looks the table up under its lower-cased name while the        *)
(* compiler stores it as written, so the statement fails for table Post.   *)
(***************************************************************************)
IsSelectAllFrom(t) ==
  /\ Analyzed
  /\ FromNames(t)
  /\ stmt.expr = <<FAll>>
  /\ stmt.omit = <<>> /\ stmt.fetch = <<>> /\ ~stmt.value /\ ~stmt.only

YieldsTable(t) ==
  /\ result.ok
  /\ result.ty.tag = "Array" /\ result.ty.len = NoLen
  /\ result.ty.elem.tag = "Object"
  /\ DOMAIN result.ty.elem.fields = DOMAIN schema.ast.fields[t].ast.fields
  /\ \A n \in DOMAIN schema.ast.fields[t].ast.fields :
       result.ty.elem.fields[n].ast = schema.ast.fields[t].ast.fields[n].ast

C1_SelectAllYieldsTable ==
  \A t \in (IF schema.ok THEN DOMAIN schema.ast.fields ELSE {}) :
    IsSelectAllFrom(t) => YieldsTable(t)

\* the same for the tables whose name is written in lower case
C1_SelectAllYieldsLowerCaseTable ==
  \A t \in (IF schema.ok THEN DOMAIN schema.ast.fields ELSE {}) :
    (IsSelectAllFrom(t) /\ to_lowercase(t) = t) => YieldsTable(t)

C1_ReferenceUserHasSixFields ==
  /\ IsSelectAllFrom("user")
  /\ decls = ReferenceSchema
  /\ result.ok
  /\ Cardinality(DOMAIN result.ty.elem.fields) = 6

(***************************************************************************)
(* C2: for every SELECT that analyzes successfully, the result with ONLY   *)
(* unset is Array(r) with no max length, r being a result of the same      *)
(* statement with ONLY set; with ONLY set the result is the type the VALUE *)
(* step left, with no outer Array: SELECT * FROM ONLY t is a bare Object.  *)
(***************************************************************************)
ValueStepTypes ==
  {value_type(stmt.expr, stmt.value, Fetched.ty, h).ty : h \in HashFirsts(schema.ast, stmt)}

C2_OnlyDecidesTheWrap ==
  (Analyzed /\ result.ok) =>
    /\ ~stmt.only =>
         \E r \in Outcomes([stmt EXCEPT !.only = TRUE]) :
           r.ok /\ result.ty = Array(r.ty, NoLen)
    /\ stmt.only => result.ty \in ValueStepTypes
    /\ (stmt.only /\ stmt.expr = <<FAll>> /\ ~stmt.value) =>
         (result.ty.tag = "Object" /\ result.ty = Fetched.ty)

C2_SelectAllFromOnlyUser ==
  /\ Analyzed /\ decls = ReferenceSchema /\ FromNames("user")
  /\ stmt.only /\ stmt.expr = <<FAll>> /\ ~stmt.value
  /\ result.ok /\ result.ty.tag = "Object"
  /\ Cardinality(DOMAIN result.ty.fields) = 6

(***************************************************************************)
(* C3: a SELECT whose FROM names a table absent from the schema, or whose  *)
(* projection names a field absent from the base table's Object, fails     *)
(* with UnknownField and returns no type; it is never widened to Any.      *)
(* The schema is keyed by lower-cased name, so a table is absent when its  *)
(* lower-cased name is no key.  The projection list is resolved in order   *)
(* and the first failure is the one reported: an absent field behind a     *)
(* function call or an unresolvable hop fails with that item's error.      *)
(***************************************************************************)
AbsentTable ==
  /\ Analyzed
  /\ Len(stmt.what) > 0 /\ stmt.what[1].v = "Table"
  /\ to_lowercase(stmt.what[1].name) \notin DOMAIN schema.ast.fields

\* item i of the projection list is an idiom that starts with a field the base table lacks
AbsentFieldAt(i) ==
  /\ Analyzed /\ Base.ok /\ Base.ty.tag = "Object"
  /\ stmt.expr[i].f = "Single" /\ stmt.expr[i].v = "Idiom"
  /\ stmt.expr[i].idiom[1].k = "Field"
  /\ stmt.expr[i].idiom[1].name \notin DOMAIN Base.ty.fields

\* the items before item i resolve
EarlierItemsResolve(i) ==
  apply_field_selection(schema.ast, Base.ty, SubSeq(stmt.expr, 1, i - 1), stmt.omit, "").ok

\* the claim as stated: UnknownField whatever else the statement holds
C3_AbsentNameFailsWithUnknownField ==
  (AbsentTable \/ \E i \in DOMAIN stmt.expr : AbsentFieldAt(i)) => result = Err("UnknownField")

\* the claim with the order of resolution: no type is returned, and the
\* error is UnknownField unless an earlier item has failed with its own
C3_AbsentNameFailsInOrder ==
  /\ AbsentTable => result = Err("UnknownField")
  /\ \A i \in DOMAIN stmt.expr :
       AbsentFieldAt(i) =>
         /\ ~result.ok /\ result.ty = NoType
         /\ EarlierItemsResolve(i) => result.err = "UnknownField"

C3_AbsentFieldAfterAgeFails ==
  /\ Analyzed /\ decls = ReferenceSchema /\ FromNames("user")
  /\ stmt.expr = <<FIdiom(Path1("age"), NoAlias), FIdiom(Path1("nonexistent"), NoAlias)>>
  /\ AbsentFieldAt(2) /\ EarlierItemsResolve(2)
  /\ result = Err("UnknownField")

(***************************************************************************)
(* C4: a projection item f AS a, f a field of the base table, produces a   *)
(* result entry keyed a whose type is f's schema type and whose            *)
(* original_name is f; the result has no entry keyed f unless f is also    *)
(* projected separately.  Stated of the projected Object as the result     *)
(* carries it: no FETCH, no VALUE unwrap.  The entry is produced unless    *)
(* OMIT names a or a later item of the list yields the name a again.       *)
(***************************************************************************)
\* the result carries the projected Object as Step 2 built it
KeepsProjection ==
  /\ Analyzed /\ result.ok
  /\ stmt.fetch = <<>>
  /\ ~(stmt.value /\ Len(stmt.expr) = 1)

\* item i of the projection list is f AS a, f a field of the base table
AliasedFieldAt(i) ==
  /\ stmt.expr[i].f = "Single" /\ stmt.expr[i].v = "Idiom"
  /\ stmt.expr[i].alias # NoAlias
  /\ Len(stmt.expr[i].idiom) = 1 /\ stmt.expr[i].idiom[1].k = "Field"
  /\ stmt.expr[i].idiom[1].name \in DOMAIN Base.ty.fields

\* item j of the projection list yields an entry of name n, OMIT aside
YieldsName(j, n) ==
  \/ stmt.expr[j].f = "All" /\ n \in DOMAIN Base.ty.fields
  \/ /\ stmt.expr[j].f = "Single" /\ stmt.expr[j].v = "Idiom"
     /\ LET r == resolve_graph_traversal(schema.ast, Base.ty, stmt.expr[j].idiom)
        IN r.ok /\ ResultName(stmt.expr[j].alias, r.name) = n

AliasEntry(i) ==
  LET f == stmt.expr[i].idiom[1].name
      a == stmt.expr[i].alias
  IN /\ a \in DOMAIN Inner.fields
     /\ Inner.fields[a].ast = Base.ty.fields[f].ast
     /\ Inner.fields[a].meta.original_name = f

NoEntryOfCanonicalName(i) ==
  LET f == stmt.expr[i].idiom[1].name
  IN f \in DOMAIN Inner.fields => \E j \in DOMAIN stmt.expr : j # i /\ YieldsName(j, f)

\* the claim as stated: every aliased item has its entry
C4_AliasKeysTheEntry ==
  KeepsProjection =>
    \A i \in DOMAIN stmt.expr :
      AliasedFieldAt(i) => (AliasEntry(i) /\ NoEntryOfCanonicalName(i))

\* the claim with the two ways the entry is lost or replaced
C4_AliasKeysTheEntryUnlessSuppressed ==
  KeepsProjection =>
    \A i \in DOMAIN stmt.expr :
      AliasedFieldAt(i) =>
        /\ ( /\ ~is_field_omitted(stmt.expr[i].alias, stmt.omit)
             /\ \A j \in DOMAIN stmt.expr : j > i => ~YieldsName(j, stmt.expr[i].alias) )
           => AliasEntry(i)
        /\ NoEntryOfCanonicalName(i)

C4_NameAsFullNameAndAge ==
  /\ KeepsProjection /\ decls = ReferenceSchema /\ FromNames("user")
  /\ stmt.expr = <<FIdiom(Path1("name"), "full_name"), FIdiom(Path1("age"), NoAlias)>>
  /\ stmt.omit = <<>>
  /\ DOMAIN Inner.fields = {"full_name", "age"}
  /\ Inner.fields["full_name"].ast = Scalar("String")
  /\ Inner.fields["full_name"].meta.original_name = "name"

(***************************************************************************)
(* C5: OMIT is matched against the resulting field name: no entry of the   *)
(* result bears a name OMIT lists; SELECT * OMIT x FROM t yields exactly   *)
(* t's fields minus x, each with its schema type; for an aliased item      *)
(* f AS a, OMIT a removes the entry and OMIT f leaves an entry keyed a.    *)
(***************************************************************************)
\* the names the OMIT idioms start with
OmitNames == {stmt.omit[i][1].name : i \in {k \in DOMAIN stmt.omit : stmt.omit[k][1].k = "Field"}}

C5_OmitMatchesTheResultingName ==
  KeepsProjection =>
    /\ DOMAIN Inner.fields \cap OmitNames = {}
    /\ stmt.expr = <<FAll>> =>
         /\ DOMAIN Inner.fields = DOMAIN Base.ty.fields \ OmitNames
         /\ \A n \in DOMAIN Inner.fields : Inner.fields[n].ast = Base.ty.fields[n].ast
    /\ \A i \in DOMAIN stmt.expr :
         AliasedFieldAt(i) =>
           /\ stmt.expr[i].alias \in OmitNames => stmt.expr[i].alias \notin DOMAIN Inner.fields
           /\ ( /\ stmt.expr[i].idiom[1].name \in OmitNames
                /\ stmt.expr[i].alias \notin OmitNames )
              => stmt.expr[i].alias \in DOMAIN Inner.fields

C5_SelectAllOmitAge ==
  /\ KeepsProjection /\ decls = ReferenceSchema /\ FromNames("user")
  /\ stmt.expr = <<FAll>> /\ stmt.omit = <<Path1("age")>>
  /\ DOMAIN Inner.fields = {"id", "name", "address", "tags", "best_friend"}

C5_OmitNameKeepsFullName ==
  /\ KeepsProjection /\ decls = ReferenceSchema /\ FromNames("user")
  /\ stmt.expr = <<FIdiom(Path1("name"), "full_name")>> /\ stmt.omit = <<Path1("name")>>
  /\ DOMAIN Inner.fields = {"full_name"}

(***************************************************************************)
(* C6: when VALUE is set and the projection list has exactly one item,     *)
(* resolving to type T, the result before the cardinality wrap is T when T *)
(* is not an Array and T's element type when T is an Array, one layer      *)
(* removed, never the Object containing the field; when VALUE is unset or  *)
(* the list has more than one item the projected Object is kept.           *)
(* T is the type of the item's entry when the VALUE step runs: the type    *)
(* the idiom resolves to, after the FETCH step if the statement has one.   *)
(***************************************************************************)
UnwrapsValue ==
  /\ Analyzed /\ result.ok
  /\ stmt.value /\ Len(stmt.expr) = 1
  /\ stmt.expr[1].f = "Single" /\ stmt.expr[1].v = "Idiom"

\* the type of the single entry of the projected Object after FETCH
SingleEntryType ==
  Fetched.ty.fields[CHOOSE n \in DOMAIN Fetched.ty.fields : TRUE].ast

OneLayerOff(T) == IF T.tag = "Array" THEN T.elem ELSE T

C6_ValueUnwrapsOneLayer ==
  /\ UnwrapsValue =>
       /\ Cardinality(DOMAIN Fetched.ty.fields) = 1
       /\ Inner = OneLayerOff(SingleEntryType)
       /\ Inner # Fetched.ty
       /\ stmt.fetch = <<>> =>
            SingleEntryType = resolve_graph_traversal(schema.ast, Base.ty, stmt.expr[1].idiom).ty
  /\ (Analyzed /\ result.ok /\ ~(stmt.value /\ Len(stmt.expr) = 1)) =>
       (Inner = Fetched.ty /\ Inner.tag = "Object")

C6_ValueTagsOfUser ==
  /\ UnwrapsValue /\ decls = ReferenceSchema /\ FromNames("user")
  /\ stmt.expr = <<FIdiom(Path1("tags"), NoAlias)>> /\ stmt.fetch = <<>> /\ ~stmt.only
  /\ SingleEntryType = Array(Record("tag"), NoLen)
  /\ result.ty = Array(Record("tag"), NoLen)

(***************************************************************************)
(* C7: after a successful FETCH of one path, every RecordRef(t) reachable  *)
(* in the projected result before expansion, in the fetched field or in    *)
(* any other projected field, at any depth inside Object, Array, Optional  *)
(* or Union nodes, has been replaced by the schema's Object of table t.    *)
(* replace_record_links has no arm for Optional: a RecordRef inside an     *)
(* Optional is left as it is.                                              *)
(***************************************************************************)
\* post is pre with every RecordRef replaced by the Object of its table
RECURSIVE Replaced(_, _)
Replaced(pre, post) ==
  CASE pre.tag = "Record" ->
         pre.table \in DOMAIN schema.ast.fields /\ post = schema.ast.fields[pre.table].ast
    [] pre.tag = "Object" ->
         /\ post.tag = "Object" /\ DOMAIN post.fields = DOMAIN pre.fields
         /\ \A n \in DOMAIN pre.fields : Replaced(pre.fields[n].ast, post.fields[n].ast)
    [] pre.tag = "Array" -> post.tag = "Array" /\ Replaced(pre.elem, post.elem)
    [] pre.tag = "Option" -> post.tag = "Option" /\ Replaced(pre.inner, post.inner)
    [] pre.tag = "Union" ->
         /\ post.tag = "Union" /\ DOMAIN post.variants = DOMAIN pre.variants
         /\ \A i \in DOMAIN pre.variants : Replaced(pre.variants[i], post.variants[i])
    [] OTHER -> post = pre

\* a successful statement with one FETCH path whose result carries the expanded Object
FetchedOnePath ==
  /\ Analyzed /\ result.ok
  /\ Len(stmt.fetch) = 1
  /\ ~(stmt.value /\ Len(stmt.expr) = 1)

C7_FetchReplacesEveryRecordLink ==
  FetchedOnePath => Replaced(Projected.ty, Inner)

(***************************************************************************)
(* C8: if a FETCH path resolves in the projected result to a type other    *)
(* than RecordRef or Array(RecordRef), a scalar, an Object, an Optional, a *)
(* Union or an Array of other elements, analysis fails with                *)
(* UnsupportedOperation whatever the other clauses are, and no type is     *)
(* returned.  The FETCH paths are taken in order and the first failure is  *)
(* the one reported: behind a path that does not resolve, or one whose     *)
(* expansion meets a RecordRef to a table the schema lacks, the analysis   *)
(* fails with that path's error.                                           *)
(***************************************************************************)
\* FETCH path i resolves in the projected result to a type that is no record link
NonRecordFetchAt(i) ==
  /\ Analyzed /\ Projected.ok
  /\ LET r == resolve_idiom(Projected.ty, stmt.fetch[i])
     IN /\ r.ok
        /\ ~(r.ty.tag = "Record" \/ (r.ty.tag = "Array" /\ r.ty.elem.tag = "Record"))

\* the FETCH paths before path i are expanded
EarlierFetchesExpand(i) ==
  apply_fetch(schema.ast, SubSeq(stmt.fetch, 1, i - 1), Projected.ty).ok

\* the claim as stated: UnsupportedOperation whatever else the statement holds
C8_NonRecordFetchIsUnsupported ==
  \A i \in DOMAIN stmt.fetch :
    NonRecordFetchAt(i) => result = Err("UnsupportedOperation")

\* the claim with the order of the paths
C8_NonRecordFetchFailsInOrder ==
  \A i \in DOMAIN stmt.fetch :
    NonRecordFetchAt(i) =>
      /\ ~result.ok /\ result.ty = NoType
      /\ EarlierFetchesExpand(i) => result.err = "UnsupportedOperation"

C8_FetchAgeBehindBestFriend ==
  /\ Analyzed /\ decls = ReferenceSchema /\ FromNames("user")
  /\ stmt.expr = <<FAll>>
  /\ stmt.fetch = <<Path1("best_friend"), Path1("age")>>
  /\ NonRecordFetchAt(2) /\ EarlierFetchesExpand(2)
  /\ result = Err("UnsupportedOperation")

(***************************************************************************)
(* C9: a projection idiom that contains one or more graph hops and         *)
(* resolves has type Array(T), exactly one Array layer added whatever the  *)
(* number of hops: T is the destination table's Object when the idiom ends *)
(* in a wildcard and the terminal field's type when it ends in a field.    *)
(* The wildcard hands over the type the traversal stands on: behind field  *)
(* segments, as in ->friend->user.address.*, T is the type of the last     *)
(* field, not the destination table's Object.                              *)
(***************************************************************************)
\* the index of the last graph hop of an idiom, 0 if it has none
LastHop(idiom) ==
  LET hops == {i \in DOMAIN idiom : idiom[i].k = "Graph"}
  IN IF hops = {} THEN 0 ELSE CHOOSE i \in hops : \A j \in hops : j <= i

\* the Object of the table the last hop of the idiom leads to
Destination(idiom) ==
  LET part == idiom[LastHop(idiom)]
      rel == find_relation_field(schema.ast.fields[part.name].ast, part.dir)
  IN schema.ast.fields[rel.ty.table].ast

\* the type at the end of the field segments idiom[i..last], from type ty on
RECURSIVE FieldsFrom(_, _, _, _)
FieldsFrom(ty, idiom, i, last) ==
  IF i > last THEN ty ELSE FieldsFrom(ty.fields[idiom[i].name].ast, idiom, i + 1, last)

\* item i is an idiom with a graph hop, and the result holds its entry under name n
GraphEntryAt(i, n) ==
  /\ KeepsProjection
  /\ stmt.expr[i].f = "Single" /\ stmt.expr[i].v = "Idiom"
  /\ LastHop(stmt.expr[i].idiom) > 0
  /\ LET r == resolve_graph_traversal(schema.ast, Base.ty, stmt.expr[i].idiom)
     IN /\ r.ok
        /\ n = ResultName(stmt.expr[i].alias, r.name)
        /\ n \in DOMAIN Inner.fields
        /\ Inner.fields[n].meta.original_name = r.name

EndsIn(idiom, kind) == idiom[Len(idiom)].k = kind

\* the claim as stated: a final wildcard gives the destination table's Object
C9_HopsAddOneArrayLayer ==
  \A i \in DOMAIN stmt.expr : \A n \in (IF KeepsProjection THEN DOMAIN Inner.fields ELSE {}) :
    GraphEntryAt(i, n) =>
      LET idiom == stmt.expr[i].idiom
          type == Inner.fields[n].ast
      IN /\ type.tag = "Array" /\ type.len = NoLen
         /\ EndsIn(idiom, "All") => type.elem = Destination(idiom)
         /\ EndsIn(idiom, "Field") =>
              type.elem = FieldsFrom(Destination(idiom), idiom, LastHop(idiom) + 1, Len(idiom))

\* the claim with the wildcard behind field segments: T is the type the
\* segments behind the last hop lead to, the destination Object if there are none
C9_HopsAddOneArrayLayerAroundTheCursor ==
  \A i \in DOMAIN stmt.expr : \A n \in (IF KeepsProjection THEN DOMAIN Inner.fields ELSE {}) :
    GraphEntryAt(i, n) =>
      LET idiom == stmt.expr[i].idiom
          type == Inner.fields[n].ast
          last == IF EndsIn(idiom, "All") THEN Len(idiom) - 1 ELSE Len(idiom)
      IN type = Array(FieldsFrom(Destination(idiom), idiom, LastHop(idiom) + 1, last), NoLen)

C9_FriendsOfFriendsNames ==
  /\ decls = ReferenceSchema /\ FromNames("user")
  /\ Len(stmt.expr) = 2
  /\ stmt.expr[1] = FIdiom(<<Out("friend"), Out("user"), PAll>>, "friends")
  /\ LastHop(stmt.expr[2].idiom) = 4
  /\ GraphEntryAt(1, "friends") /\ GraphEntryAt(2, "fof")
  /\ Inner.fields["fof"].ast = Array(Scalar("String"), NoLen)
  /\ Inner.fields["friends"].ast = Array(schema.ast.fields["user"].ast, NoLen)

(***************************************************************************)
(* C10: for an edge table without an id field, a ->edge hop takes the      *)
(* destination table from the edge's out RecordRef and a <-edge hop from   *)
(* its in RecordRef; the other side is used only when the primary field is *)
(* absent, and when neither field exists resolution fails with             *)
(* UnknownField.  Stated of a projection item that is one hop, reached by  *)
(* the analysis: a primary field that is no RecordRef fails with           *)
(* InvalidFieldType, the other side is not looked at.                      *)
(***************************************************************************)
\* item i is a single hop over an edge table of the schema that has no id
\* field, and the items before it resolve
HopAt(i) ==
  /\ Analyzed /\ Base.ok
  /\ stmt.expr[i].f = "Single" /\ stmt.expr[i].v = "Idiom"
  /\ Len(stmt.expr[i].idiom) = 1 /\ stmt.expr[i].idiom[1].k = "Graph"
  /\ stmt.expr[i].idiom[1].name \in DOMAIN schema.ast.fields
  /\ "id" \notin DOMAIN schema.ast.fields[stmt.expr[i].idiom[1].name].ast.fields
  /\ EarlierItemsResolve(i)

EdgeFields(i) == schema.ast.fields[stmt.expr[i].idiom[1].name].ast.fields

PrimarySide(i) == IF stmt.expr[i].idiom[1].dir = "Out" THEN "out" ELSE "in"

OtherSide(i) == IF stmt.expr[i].idiom[1].dir = "Out" THEN "in" ELSE "out"

\* the side the claim reads the destination from
SideRead(i) == IF PrimarySide(i) \in DOMAIN EdgeFields(i) THEN PrimarySide(i) ELSE OtherSide(i)

\* the entry of the hop in the result, when the result holds it
HopEntries(i) ==
  IF KeepsProjection
  THEN {n \in DOMAIN Inner.fields :
          Inner.fields[n].meta.original_path = <<Base.ty.fields[CHOOSE m \in DOMAIN Base.ty.fields : TRUE].meta.original_path[1],
                                                 PartToString(stmt.expr[i].idiom[1])>>}
  ELSE {}

\* a statement of the one item and no other clause
OnlyTheHop == Len(stmt.expr) = 1 /\ stmt.omit = <<>> /\ stmt.fetch = <<>> /\ ~stmt.value

C10_HopReadsItsSide ==
  \A i \in DOMAIN stmt.expr :
    HopAt(i) =>
      IF {PrimarySide(i), OtherSide(i)} \cap DOMAIN EdgeFields(i) = {}
      THEN result = Err("UnknownField")
      ELSE IF EdgeFields(i)[SideRead(i)].ast.tag # "Record"
           THEN result = Err("InvalidFieldType")
           ELSE LET t == EdgeFields(i)[SideRead(i)].ast.table
                IN /\ OnlyTheHop => result.ok /\ HopEntries(i) # {}
                   /\ \A n \in HopEntries(i) :
                        Inner.fields[n].ast = Array(schema.ast.fields[t].ast, NoLen)

C10_BornInReadFromTheOtherSide ==
  /\ decls = GraphSchema /\ FromNames("person")
  /\ stmt.expr = <<FIdiom(<<In("born_in")>>, NoAlias)>>
  /\ HopAt(1) /\ OnlyTheHop
  /\ PrimarySide(1) \notin DOMAIN EdgeFields(1) /\ SideRead(1) = "out"
  /\ HopEntries(1) = {"city"}
  /\ Inner.fields["city"].ast = Array(schema.ast.fields["city"].ast, NoLen)

(***************************************************************************)
(* C11: when a graph segment names a table whose Object has an id field,   *)
(* the traversal's destination is that same table, for every such table    *)
(* name: ->wrote->post with a post table that has id lands on post.        *)
(* find_relation_field answers "user" for every table that has an id       *)
(* field, so the hop lands on the user table, or fails when there is none. *)
(***************************************************************************)
\* item i is an idiom whose last hop names a table that has an id field,
\* with nothing or a wildcard behind the hop; the result holds its entry under n
IdHopEntryAt(i, n) ==
  /\ GraphEntryAt(i, n)
  /\ LET idiom == stmt.expr[i].idiom
     IN /\ LastHop(idiom) >= Len(idiom) - 1
        /\ idiom[Len(idiom)].k \in {"Graph", "All"}
        /\ "id" \in DOMAIN schema.ast.fields[idiom[LastHop(idiom)].name].ast.fields

C11_IdHopLandsOnItsOwnTable ==
  \A i \in DOMAIN stmt.expr : \A n \in (IF KeepsProjection THEN DOMAIN Inner.fields ELSE {}) :
    IdHopEntryAt(i, n) =>
      LET idiom == stmt.expr[i].idiom
      IN Inner.fields[n].ast = Array(schema.ast.fields[idiom[LastHop(idiom)].name].ast, NoLen)

\* the same for the segments that name the user table
C11_UserHopLandsOnUser ==
  \A i \in DOMAIN stmt.expr : \A n \in (IF KeepsProjection THEN DOMAIN Inner.fields ELSE {}) :
    (IdHopEntryAt(i, n) /\ stmt.expr[i].idiom[LastHop(stmt.expr[i].idiom)].name = "user") =>
      Inner.fields[n].ast = Array(schema.ast.fields["user"].ast, NoLen)

(***************************************************************************)
(* C12: for every un-aliased projection whose idiom starts with a graph    *)
(* hop, whether it ends in a hop, a field segment or a wildcard, the       *)
(* result field name is the name of the final traversed table, not the     *)
(* arrow-joined path and not the trailing field or `*`.                    *)
(* The name is the text behind the last "->" of the joined path: the table *)
(* for an idiom that ends in a hop, the field or "*" for the others.       *)
(***************************************************************************)
\* the statement projects one un-aliased idiom that starts with a graph hop
\* and resolves, and the result carries the projected Object
ProjectsOneHopIdiom ==
  /\ KeepsProjection
  /\ Len(stmt.expr) = 1
  /\ stmt.expr[1].f = "Single" /\ stmt.expr[1].v = "Idiom"
  /\ stmt.expr[1].alias = NoAlias
  /\ stmt.expr[1].idiom[1].k = "Graph"

\* the table the last hop of the idiom lands on
FinalTable(idiom) ==
  LET part == idiom[LastHop(idiom)]
  IN find_relation_field(schema.ast.fields[part.name].ast, part.dir).ty.table

C12_HopIdiomIsNamedAfterFinalTable ==
  ProjectsOneHopIdiom =>
    \A n \in DOMAIN Inner.fields : n = FinalTable(stmt.expr[1].idiom)

\* the same for the idioms that end in a hop
C12_HopEndedIdiomIsNamedAfterFinalTable ==
  (ProjectsOneHopIdiom /\ EndsIn(stmt.expr[1].idiom, "Graph")) =>
    (stmt.omit = <<>> => DOMAIN Inner.fields # {})
    /\ \A n \in DOMAIN Inner.fields : n = FinalTable(stmt.expr[1].idiom)

(***************************************************************************)
(* C13: when two projection items produce the same resulting name, the     *)
(* result Object has a single entry under that name holding the type and   *)
(* metadata of the item that appears later in the projection list; the     *)
(* earlier item is dropped without any error.                              *)
(***************************************************************************)
\* the entry item j by itself produces under the name n it yields
ItemEntry(j, n) ==
  LET table_name == BaseTableName(Base.ty, "")
      field == stmt.expr[j]
      r == resolve_graph_traversal(schema.ast, Base.ty, field.idiom)
  IN IF field.f = "All"
     THEN [Base.ty.fields[n] EXCEPT !.meta.original_path = <<table_name>> \o @]
     ELSE FieldInfo(r.ty,
                    FieldMetadata(r.name,
                                  <<table_name>> \o [k \in DOMAIN field.idiom |-> PartToString(field.idiom[k])],
                                  DefaultPermissions))

\* the last item of the projection list that yields the name n
LastYielding(n) ==
  CHOOSE j \in DOMAIN stmt.expr :
    YieldsName(j, n) /\ \A k \in DOMAIN stmt.expr : YieldsName(k, n) => k <= j

\* two items of the projection list yield the name n, which OMIT does not name
YieldedTwice(n) ==
  /\ n \notin OmitNames
  /\ \E i, j \in DOMAIN stmt.expr : i < j /\ YieldsName(i, n) /\ YieldsName(j, n)

\* every item of the projection list is a wildcard or an idiom that resolves
AllItemsResolve ==
  /\ Analyzed /\ Base.ok
  /\ \A i \in DOMAIN stmt.expr :
       \/ stmt.expr[i].f = "All"
       \/ /\ stmt.expr[i].v = "Idiom"
          /\ resolve_graph_traversal(schema.ast, Base.ty, stmt.expr[i].idiom).ok

\* the names the items of the projection list may yield
YieldedNames ==
  DOMAIN Base.ty.fields
    \cup {ResultName(stmt.expr[i].alias,
                     resolve_graph_traversal(schema.ast, Base.ty, stmt.expr[i].idiom).name) :
            i \in {k \in DOMAIN stmt.expr : stmt.expr[k].f = "Single" /\ stmt.expr[k].v = "Idiom"}}

C13_LaterItemWins ==
  /\ (AllItemsResolve /\ stmt.fetch = <<>> /\ ~stmt.value) => result.ok
  /\ KeepsProjection =>
       \A n \in YieldedNames :
         YieldedTwice(n) =>
           /\ n \in DOMAIN Inner.fields
           /\ Inner.fields[n] = ItemEntry(LastYielding(n), n)

C13_AgeReplacesNameAsFullName ==
  /\ KeepsProjection /\ decls = ReferenceSchema /\ FromNames("user")
  /\ stmt.expr = <<FIdiom(Path1("name"), "full_name"), FIdiom(Path1("age"), "full_name")>>
  /\ YieldedTwice("full_name") /\ LastYielding("full_name") = 2
  /\ DOMAIN Inner.fields = {"full_name"}
  /\ Inner.fields["full_name"].ast = Scalar("Number")
  /\ Inner.fields["full_name"].meta.original_name = "age"

(***************************************************************************)
(* C14: for any well-formed sequence of field declarations (every parent   *)
(* declared before its children in the source), analyze_schema returns the *)
(* same Schema for every permutation of that sequence as it does for the   *)
(* original order; the depth sort is a no-op on the well-formed order.     *)
(***************************************************************************)
\* the schema is compiled from a short text and no statement is in analysis
CompiledPlain == pc = "ready" /\ decls \in PlainTexts

\* the sequences that hold every declaration of the set once
RECURSIVE Orders(_)
Orders(defs) ==
  IF defs = {} THEN {<<>>}
  ELSE UNION {{<<def>> \o rest : rest \in Orders(defs \ {def})} : def \in defs}

\* the texts the field declarations of text can be reordered into: every
\* other declaration stays where it is
Reorderings(text) ==
  {w \in Orders({text[i] : i \in DOMAIN text}) :
     \A i \in DOMAIN text : ~IsFieldDefinition(text[i]) => w[i] = text[i]}

\* the path a field declaration is the child of: its path without the last part
ParentPath(def) == SubSeq(def.name, 1, Len(def.name) - 1)

\* two field declarations name the same table, as the compiler looks it up
SameTable(d, e) == to_lowercase(d.what) = to_lowercase(e.what)

\* every field declaration below the top of its table comes after a
\* declaration of its parent
WellFormed(text) ==
  \A i \in DOMAIN text :
    (IsFieldDefinition(text[i]) /\ Len(text[i].name) > 1) =>
      \E j \in 1..(i - 1) :
        /\ IsFieldDefinition(text[j]) /\ SameTable(text[j], text[i])
        /\ text[j].name = ParentPath(text[i])

\* no two field declarations of the text name the same path of the same table
DeclaresOnce(text) ==
  \A i, j \in DOMAIN text :
    (IsFieldDefinition(text[i]) /\ IsFieldDefinition(text[j]) /\ i # j) =>
      ~(SameTable(text[i], text[j]) /\ text[i].name = text[j].name)

\* analyze_schema without its sort: field definitions applied in source order
CompileInSourceOrder(text) ==
  LET first == ApplyDefinitions(text, 1, Object(NoFields))
  IN IF first.ok THEN ApplyFieldDefinitions(SelectSeq(text, IsFieldDefinition), 1, first.ast) ELSE first

\* two compilations return the same Schema, or neither returns one
SameSchema(r1, r2) == r1.ok = r2.ok /\ r1.ast = r2.ast

\* the claim as stated: any well-formed order of the compiled text gives the
\* Schema the text gave, with or without the sort
C14_EveryOrderGivesTheSchema ==
  CompiledPlain =>
    \A w \in Reorderings(decls) :
      WellFormed(w) =>
        /\ SameSchema(schema, analyze_schema(w))
        /\ SameSchema(analyze_schema(w), CompileInSourceOrder(w))

\* C14, amended: the same of texts that declare no path twice
C14_EveryOrderOfDistinctPathsGivesTheSchema ==
  CompiledPlain =>
    \A w \in Reorderings(decls) :
      (WellFormed(w) /\ DeclaresOnce(w)) =>
        /\ SameSchema(schema, analyze_schema(w))
        /\ SameSchema(analyze_schema(w), CompileInSourceOrder(w))

\* children written before their parent: a.b.c, a.b, then a, compiled
C14_ChildrenBeforeParent ==
  /\ CompiledPlain /\ schema.ok
  /\ decls = << DTable("t", "FULL"),
                DField(<<PField("a"), PField("b"), PField("c")>>, "t", KPrim("String")),
                DField(Path2("a", "b"), "t", KPrim("Number")),
                DField(Path1("a"), "t", KObject) >>
  /\ \E w \in Reorderings(decls) : w # decls /\ WellFormed(w) /\ DeclaresOnce(w)
  /\ ~SameSchema(schema, CompileInSourceOrder(decls))

(***************************************************************************)
(* C15: whenever a field declaration's path has a parent that exists and   *)
(* is not an Object (any non-terminal segment's node, or the node into     *)
(* which the terminal field segment would be inserted) analyze_schema      *)
(* fails with MissingParentObject; such a declaration is never silently    *)
(* dropped while compilation succeeds.                                     *)
(***************************************************************************)
\* the field definitions of the compiled text in the order of the second loop
Sorted == SortByDepth(SelectSeq(decls, IsFieldDefinition))

\* the Schema under construction when the second loop reaches its i-th definition
Before(i) ==
  LET first == ApplyDefinitions(decls, 1, Object(NoFields))
  IN IF first.ok THEN ApplyFieldDefinitions(SubSeq(Sorted, 1, i - 1), 1, first.ast) ELSE first

\* the second loop reaches its i-th definition
Reaches(i) == CompiledPlain /\ i \in DOMAIN Sorted /\ Before(i).ok

\* the type under the path of field segments from the type ty, NoType where
\* a segment is not a field of an Object
RECURSIVE TypeAt(_, _, _)
TypeAt(ty, path, i) ==
  IF i > Len(path) THEN ty
  ELSE IF ty.tag = "Object" /\ path[i].k = "Field" /\ path[i].name \in DOMAIN ty.fields
       THEN TypeAt(ty.fields[path[i].name].ast, path, i + 1)
       ELSE NoType

\* the type the Schema ast holds under the path of the table the definition names
NodeOf(ast, def, path) ==
  IF to_lowercase(def.what) \in DOMAIN ast.fields
  THEN TypeAt(ast.fields[to_lowercase(def.what)].ast, path, 1)
  ELSE NoType

\* the k-th segment of the definition is a field segment whose parent exists
\* in the Schema ast and is not an Object
ParentIsNotObject(ast, def, k) ==
  /\ def.name[k].k = "Field"
  /\ NodeOf(ast, def, SubSeq(def.name, 1, k - 1)) # NoType
  /\ NodeOf(ast, def, SubSeq(def.name, 1, k - 1)).tag # "Object"

\* the claim as stated: a definition with such a parent fails with
\* MissingParentObject
C15_NonObjectParentFails ==
  \A i \in 1..MaxDecls :
    (Reaches(i) /\ \E k \in DOMAIN Sorted[i].name : ParentIsNotObject(Before(i).ast, Sorted[i], k)) =>
      apply_field_definition(Sorted[i], Before(i).ast) = SErr("MissingParentObject")

\* what holds of the segments before the last
C15_NonObjectAncestorFails ==
  \A i \in 1..MaxDecls :
    (/\ Reaches(i)
     /\ \A j \in 1..(Len(Sorted[i].name) - 1) : Sorted[i].name[j].k = "Field"
     /\ \E k \in 2..Len(Sorted[i].name) : ParentIsNotObject(Before(i).ast, Sorted[i], k - 1)) =>
      apply_field_definition(Sorted[i], Before(i).ast) = SErr("MissingParentObject")

(***************************************************************************)
(* C16: every key of the compiled Schema's top-level Object is a           *)
(* lower-cased table name: a table declared as `User` is stored under      *)
(* `user`, where both its own field declarations and `FROM User` /         *)
(* `FROM user` find it.                                                    *)
(***************************************************************************)
\* the names under which the text declares its tables
DeclaredTables == {decls[i].what : i \in {j \in DOMAIN decls : decls[j].d = "Table"}}

\* the claim as stated: the keys of a compiled Schema are the lower-cased
\* names of the declared tables
C16_TablesAreKeyedInLowerCase ==
  (pc # "start" /\ schema.ok) =>
    /\ DOMAIN schema.ast.fields = {to_lowercase(name) : name \in DeclaredTables}
    /\ \A key \in DOMAIN schema.ast.fields : key = to_lowercase(key)

\* what holds: a table is keyed by its name as the text spells it
C16_TablesAreKeyedAsWritten ==
  (pc # "start" /\ schema.ok) => DOMAIN schema.ast.fields = DeclaredTables

\* and where the spelling has a capital, no FROM clause finds the table
C16_CapitalisedTableIsNotFound ==
  (Analyzed /\ Len(stmt.what) = 1 /\ stmt.what[1].v = "Table"
            /\ to_lowercase(stmt.what[1].name) \notin DOMAIN schema.ast.fields) =>
    ~result.ok

(***************************************************************************)
(* C17: a field declaration fails with NonExistentTableReference if and    *)
(* only if no table declaration for the table it names appears anywhere in *)
(* the schema text; a table declared under the same name, whether before   *)
(* or after the field in source order, is always found.                    *)
(***************************************************************************)
\* the i-th field definition of the second loop fails for want of its table
TableIsMissingAt(i) ==
  apply_field_definition(Sorted[i], Before(i).ast) = SErr("NonExistentTableReference")

\* the claim as stated, table names compared without regard to case
C17_MissingTableIffUndeclared ==
  \A i \in 1..MaxDecls :
    Reaches(i) =>
      (TableIsMissingAt(i) <=>
         to_lowercase(Sorted[i].what) \notin {to_lowercase(name) : name \in DeclaredTables})

\* what holds: the table is found exactly when some declaration spells it as
\* the lower-cased name of the field's table, before or after the field
C17_MissingTableIffNotSpelledInLowerCase ==
  \A i \in 1..MaxDecls :
    Reaches(i) => (TableIsMissingAt(i) <=> to_lowercase(Sorted[i].what) \notin DeclaredTables)

(***************************************************************************)
(* C18: a wildcard declaration `p.*` of kind K succeeds exactly when the   *)
(* node at p is an Array, and then that Array's element type becomes the   *)
(* type derived from K, whatever the source order of the `p` and `p.*`     *)
(* declarations; when the node at p is not an Array (a scalar, an object,  *)
(* or the table itself) compilation fails with NonArrayStarSelector.       *)
(***************************************************************************)
\* the definition declares a wildcard below a path of field segments
IsWildcard(def) ==
  /\ def.name # <<>> /\ def.name[Len(def.name)].k = "All"
  /\ \A j \in 1..(Len(def.name) - 1) : def.name[j].k = "Field"

\* the Schema after the i-th definition of the second loop
After(i) == apply_field_definition(Sorted[i], Before(i).ast)

\* the type derived from the kind of a definition
DerivedType(def) == IF def.kind = NoKind THEN Scalar("Any") ELSE TypeFromKind(def.kind)

\* the second loop reaches the wildcard i with the node p of type tag
WildcardOver(i, tag) ==
  /\ Reaches(i) /\ IsWildcard(Sorted[i])
  /\ NodeOf(Before(i).ast, Sorted[i], ParentPath(Sorted[i])).tag = tag

C18_WildcardSetsTheElementOfAnArray ==
  \A i \in 1..MaxDecls :
    (Reaches(i) /\ IsWildcard(Sorted[i])) =>
      LET p == ParentPath(Sorted[i])
          node == NodeOf(Before(i).ast, Sorted[i], p)
      IN /\ After(i).ok <=> node.tag = "Array"
         /\ node.tag = "Array" =>
              NodeOf(After(i).ast, Sorted[i], p) = Array(DerivedType(Sorted[i]), node.len)
         /\ node.tag \in {"Scalar", "Object", "Option", "Record", "Union"} =>
              After(i) = SErr("NonArrayStarSelector")

\* `a.*` written before `a`: the element of a becomes the record link
C18_WildcardBeforeItsArray ==
  /\ CompiledPlain /\ schema.ok
  /\ decls = << DTable("t", "FULL"),
                DField(StarOf("a"), "t", KRecord("t")),
                DField(Path1("a"), "t", KArray(KPrim("Int"), 5)) >>
  /\ WildcardOver(2, "Array")
  /\ schema.ast.fields["t"].ast.fields["a"].ast = Array(Record("t"), NoLen)
  /\ schema = After(2)

(***************************************************************************)
(* C19: a nested field declaration `a.b` on a declared table where `a` was *)
(* never declared compiles successfully: `a` is created as an Object field *)
(* entry with original_path [table, a] that contains `b`, instead of       *)
(* failing with MissingParentObject.                                       *)
(***************************************************************************)
\* the second loop reaches the nested field declaration i of a table the
\* Schema holds, and the table has no entry for the first segment of its path
NestedUnderUndeclared(i) ==
  /\ Reaches(i)
  /\ Len(Sorted[i].name) >= 2
  /\ \A j \in DOMAIN Sorted[i].name : Sorted[i].name[j].k = "Field"
  /\ to_lowercase(Sorted[i].what) \in DOMAIN Before(i).ast.fields
  /\ Sorted[i].name[1].name \notin DOMAIN Before(i).ast.fields[to_lowercase(Sorted[i].what)].ast.fields

ReachesField(i) == pc = "ready" /\ i \in DOMAIN Sorted /\ Before(i).ok

\* the definition declares a field: its path is made of field segments
IsTerminalField(def) == def.name # <<>> /\ \A j \in DOMAIN def.name : def.name[j].k = "Field"

\* the type the entry of a declared kind is to have
EntryType(kind) ==
  CASE kind.k = "Array" -> Array(Scalar("Any"), NoLen)
    [] kind.k = "Object" -> Object(NoFields)
    [] kind.k = "Option" -> Option(TypeFromKind(kind.inner))
    [] kind.k = "Either" -> Union([j \in DOMAIN kind.kinds |-> TypeFromKind(kind.kinds[j])])
    [] kind.k = "Record" -> Record(kind.table)
    [] OTHER -> Scalar(ScalarTypeFrom(kind))

\* the claim as stated: a field declaration that is applied leaves an entry
\* of the type of its kind under its path
C20_FieldDeclarationInsertsItsEntry ==
  \A i \in DOMAIN Sorted :
    (ReachesField(i) /\ IsTerminalField(Sorted[i]) /\ After(i).ok) =>
      NodeOf(After(i).ast, Sorted[i], Sorted[i].name) = EntryType(Sorted[i].kind)

\* what holds: the same of a declaration whose parent is an Object
C20_FieldDeclarationUnderAnObjectInsertsItsEntry ==
  \A i \in DOMAIN Sorted :
    (/\ ReachesField(i) /\ IsTerminalField(Sorted[i]) /\ After(i).ok
     /\ NodeOf(After(i).ast, Sorted[i], ParentPath(Sorted[i])).tag = "Object") =>
      NodeOf(After(i).ast, Sorted[i], Sorted[i].name) = EntryType(Sorted[i].kind)

(***************************************************************************)
(* C21: after any sequence of table, field and wildcard declarations for   *)
(* which analyze_schema succeeds, the returned value is an Object and the  *)
(* value of every table entry in it is an Object; no field or wildcard     *)
(* declaration can turn a table entry into a non-Object.                   *)
(***************************************************************************)
C21_SchemaIsAnObjectOfObjects ==
  (pc # "start" /\ schema.ok) =>
    /\ schema.ast.tag = "Object"
    /\ DOMAIN schema.ast.fields = DeclaredTables
    /\ \A table \in DOMAIN schema.ast.fields : schema.ast.fields[table].ast.tag = "Object"

\* a table with an array field and its wildcard, compiled
C21_TableWithArrayAndWildcard ==
  /\ CompiledPlain /\ schema.ok
  /\ decls = << DTable("t", "FULL"),
                DField(Path1("a"), "t", KArray(KPrim("Int"), 5)),
                DField(StarOf("a"), "t", KRecord("t")) >>
  /\ schema.ast.fields["t"].ast.tag = "Object"
  /\ DOMAIN schema.ast.fields["t"].ast.fields = {"a"}

(***************************************************************************)
(* C22: for any sequence of statement analyses against one compiled        *)
(* Schema, succeeding or failing, including FETCH expansion, the Schema is *)
(* unchanged after each analysis, and the result of analyzing a statement  *)
(* is the same whatever statements were analyzed before it.                *)
(***************************************************************************)
\* the Schema as analyze_schema returned it, before any analysis
CompiledSchema == analyze_schema(decls)

FunctionAnalyzed == typed # NoTyped

\* the name has a namespace the table knows
InKnownNamespace(name) == split(name)[1] \in Namespaces

\* the table holds a signature for the name: an arm of its own, not a default
Recognized(name) ==
  LET parts == split(name)
      ns == parts[1]
      fn == Get(parts, 1)
      sub == Get(parts, 2)
  IN CASE ns = "array" -> name \in ArrayNames
       [] ns = "crypto" -> fn \in CryptoHashes \/ (fn \in CryptoPasswords /\ sub \in {"compare", "generate"})
       [] ns = "duration" -> fn \in DurationUnits \cup {"years"} \/ (fn = "from" /\ sub \in DurationUnits)
       [] ns = "math" -> fn \in MathNumbers \cup {"bottom", "top"}
       [] ns = "object" -> fn \in ObjectNames
       [] ns = "parse" -> <<fn, sub>> \in ParseStrings \cup {<<"url", "port">>}
       [] ns = "rand" -> fn \in RandNames \cup {NoPart}
       [] ns = "search" -> fn \in SearchNames
       [] ns = "type" -> fn \in DOMAIN TypeConversions \cup {"field", "fields"} \/ (fn = "is" /\ sub # NoPart)
       [] ns = "vector" ->
            \/ fn \in VectorArrays \cup {"angle", "dot", "magnitude"}
            \/ (fn = "distance" /\ sub \in VectorDistances)
            \/ (fn = "similarity" /\ sub \in VectorSimilarities)
       [] ns = "string" ->
            \/ fn \in StringStrings \cup {"contains", "endsWith", "startsWith", "len", "split", "words"}
            \/ (fn = "is" /\ sub \in StringTests)
            \/ (fn = "semver" /\ sub \in {"compare", "major", "minor", "patch", "inc", "set"})
       [] ns = "time" ->
            \/ fn \in TimeInts \cup TimeDatetimes \cup {"format", "timezone"}
            \/ (fn = "from" /\ sub \in {"micros", "millis", "nanos", "secs", "unix"})
       [] ns = "meta" -> fn \in {"id", "tb"}
       [] ns = "encoding" -> fn = "base64" /\ sub \in {"encode", "decode"}
       [] ns = "http" -> fn \in {"head", "get", "put", "post", "patch", "delete"}
       [] ns \in {"session", "sleep", "count"} -> TRUE
       [] OTHER -> FALSE

\* the claim as stated
C23_UnrecognizedIsAnyWithFullPermissions ==
  (FunctionAnalyzed /\ ~Recognized(func)) => typed = TypedQuery(QScalar("Any"), PermsFull)

\* what holds of a name in no known namespace
C23_UnknownNamespaceIsAnyWithFullPermissions ==
  (FunctionAnalyzed /\ ~InKnownNamespace(func)) => typed = TypedQuery(QScalar("Any"), PermsFull)

\* and of an unrecognized name in a known namespace: no permissions where the
\* call returns, Any but for search, and a panic where the name is meta::x,
\* type::thing or type::range, or stops short of a segment the code indexes
C23_UnrecognizedInKnownNamespace ==
  (FunctionAnalyzed /\ InKnownNamespace(func) /\ ~Recognized(func)) =>
    \/ typed = TypedQuery(QScalar("Any"), PermsNone)
    \/ typed = TypedQuery(QArray(TypedQuery(QScalar("Any"), PermsNone), NoLen), PermsNone) /\ split(func)[1] = "search"
    \/ typed.panicked /\ split(func)[1] \in {"meta", "type"}
    \/ typed.panicked /\ Len(split(func)) < 3

(***************************************************************************)
(* C24: a field segment applied to an Array-typed cursor is resolved       *)
(* against the array's element type: the named field is looked up in the   *)
(* element (an Object, or the table a RecordRef element points to), the    *)
(* cursor becomes that field's type, and a name that is absent from the    *)
(* element type fails with UnknownField.                                   *)
(* The code steps into the element and looks nothing up: the cursor        *)
(* becomes the element itself, whatever the segment names.                 *)
(***************************************************************************)
\* item i of the projection list is f.g, f a field of the base table whose
\* type is an Array of Objects or of RecordRefs to a table of the schema
FieldOnArrayAt(i) ==
  /\ Analyzed /\ Base.ok /\ Base.ty.tag = "Object"
  /\ stmt.expr[i].f = "Single" /\ stmt.expr[i].v = "Idiom"
  /\ Len(stmt.expr[i].idiom) = 2
  /\ stmt.expr[i].idiom[1].k = "Field" /\ stmt.expr[i].idiom[2].k = "Field"
  /\ stmt.expr[i].idiom[1].name \in DOMAIN Base.ty.fields
  /\ LET f == Base.ty.fields[stmt.expr[i].idiom[1].name].ast
     IN /\ f.tag = "Array"
        /\ \/ f.elem.tag = "Object"
           \/ f.elem.tag = "Record" /\ f.elem.table \in DOMAIN schema.ast.fields

\* the element type of the array item i starts with
ElementOf(i) == Base.ty.fields[stmt.expr[i].idiom[1].name].ast.elem

\* the fields of the element: its own, or those of the table it points to
ElementFields(i) ==
  IF ElementOf(i).tag = "Object" THEN ElementOf(i).fields
  ELSE schema.ast.fields[ElementOf(i).table].ast.fields

\* where the traversal of item i stops
CursorOf(i) == TraverseFrom(schema.ast, stmt.expr[i].idiom, 1, Base.ty, <<>>)

\* the claim as stated
C24_FieldOnArrayIsLookedUpInTheElement ==
  \A i \in DOMAIN stmt.expr :
    FieldOnArrayAt(i) =>
      LET g == stmt.expr[i].idiom[2].name
      IN IF g \in DOMAIN ElementFields(i)
         THEN CursorOf(i).ok /\ CursorOf(i).cur = ElementFields(i)[g].ast
         ELSE /\ CursorOf(i) = CErr("UnknownField")
              /\ EarlierItemsResolve(i) => result = Err("UnknownField")

\* what the code does: the cursor is the element, and no name fails
C24_FieldOnArrayStepsIntoTheElement ==
  \A i \in DOMAIN stmt.expr :
    FieldOnArrayAt(i) =>
      /\ CursorOf(i).ok /\ CursorOf(i).cur = ElementOf(i)
      /\ (EarlierItemsResolve(i) /\ i = Len(stmt.expr) /\ stmt.fetch = <<>>) => result.ok

C24_AbsentNameOfTagsResolves ==
  /\ Analyzed /\ decls = ProfileSchema
  /\ stmt.expr = <<FIdiom(Path2("tags", "nonexistent"), NoAlias)>>
  /\ stmt.omit = <<>> /\ stmt.fetch = <<>> /\ ~stmt.value /\ ~stmt.only
  /\ FieldOnArrayAt(1)
  /\ result.ok
  /\ Inner.fields["tags->nonexistent"].ast = Array(Record("tag"), NoLen)

(***************************************************************************)
(* C25: only graph traversal adds an Array layer: an idiom made solely of  *)
(* field segments, with no graph hop and no wildcard (name, address.city,  *)
(* best_friend.name), resolves to the terminal field's declared type with  *)
(* no Array wrapper added.                                                 *)
(* The code wraps whenever the traversal path holds more than one segment: *)
(* address.city resolves to Array(String).                                 *)
(***************************************************************************)
\* item i of the projection list is an idiom of field segments that resolves
FieldChainAt(i) ==
  /\ Analyzed /\ Base.ok /\ Base.ty.tag = "Object"
  /\ stmt.expr[i].f = "Single" /\ stmt.expr[i].v = "Idiom"
  /\ \A k \in DOMAIN stmt.expr[i].idiom : stmt.expr[i].idiom[k].k = "Field"
  /\ CursorOf(i).ok

\* the type resolve_graph_traversal returns for item i
ResolvedOf(i) == resolve_graph_traversal(schema.ast, Base.ty, stmt.expr[i].idiom).ty

\* the claim as stated: the type of the field the chain ends on, unwrapped
C25_FieldChainAddsNoArray ==
  \A i \in DOMAIN stmt.expr :
    FieldChainAt(i) => ResolvedOf(i) = CursorOf(i).cur

\* what the code does: one segment is left unwrapped, a longer chain is wrapped
C25_OnlyOneFieldAddsNoArray ==
  \A i \in DOMAIN stmt.expr :
    FieldChainAt(i) =>
      ResolvedOf(i) = IF Len(stmt.expr[i].idiom) = 1
                      THEN CursorOf(i).cur
                      ELSE Array(CursorOf(i).cur, NoLen)

C25_CityOfAddressIsAnArray ==
  /\ Analyzed /\ decls = ProfileSchema
  /\ stmt.expr = <<FIdiom(Path2("address", "city"), NoAlias)>>
  /\ stmt.omit = <<>> /\ stmt.fetch = <<>> /\ ~stmt.value /\ ~stmt.only
  /\ FieldChainAt(1)
  /\ result.ok
  /\ Inner.fields["address->city"].ast = Array(Scalar("String"), NoLen)

(***************************************************************************)
(* C26: a SELECT whose FETCH list names two or more distinct projected     *)
(* fields that are each RecordRef or Array(RecordRef) in the schema (e.g.  *)
(* SELECT tags, best_friend FROM user FETCH tags, best_friend) analyzes    *)
(* successfully, in either order of the fetch paths, with every named      *)
(* field expanded.                                                         *)
(* The first path expands every record link of the projected Object, the   *)
(* field of the second path among them: the second path resolves to an     *)
(* Object and the analysis fails with UnsupportedOperation.                *)
(***************************************************************************)
\* FETCH path i names a field of the projected Object that is a RecordRef or
\* an Array of RecordRefs
RecordFieldFetchAt(i) ==
  /\ Len(stmt.fetch[i]) = 1 /\ stmt.fetch[i][1].k = "Field"
  /\ stmt.fetch[i][1].name \in DOMAIN Projected.ty.fields
  /\ LET f == Projected.ty.fields[stmt.fetch[i][1].name].ast
     IN f.tag = "Record" \/ (f.tag = "Array" /\ f.elem.tag = "Record")

\* the FETCH list names two or more distinct fields of that kind, and every
\* record link of the projected Object points to a table of the schema
SeveralRecordFetches ==
  /\ Analyzed /\ Base.ok /\ Projected.ok
  /\ Len(stmt.fetch) >= 2
  /\ \A i, j \in DOMAIN stmt.fetch : stmt.fetch[i] = stmt.fetch[j] => i = j
  /\ \A i \in DOMAIN stmt.fetch : RecordFieldFetchAt(i)
  /\ replace_record_links(Projected.ty, schema.ast).ok

\* the field a FETCH path names holds an Object, or an Array of Objects
Expanded(ty, path) ==
  LET f == ty.fields[path[1].name].ast
  IN f.tag = "Object" \/ (f.tag = "Array" /\ f.elem.tag = "Object")

\* the claim as stated
C26_SeveralRecordFetchesSucceed ==
  SeveralRecordFetches =>
    /\ result.ok
    /\ Fetched.ok
    /\ \A i \in DOMAIN stmt.fetch : Expanded(Fetched.ty, stmt.fetch[i])

\* what the code does: the second path fails
C26_SecondRecordFetchFails ==
  SeveralRecordFetches =>
    /\ result = Err("UnsupportedOperation")
    /\ LET first == apply_fetch(schema.ast, SubSeq(stmt.fetch, 1, 1), Projected.ty)
       IN first.ok /\ \A i \in DOMAIN stmt.fetch : Expanded(first.ty, stmt.fetch[i])

C26_TagsAndBestFriendFails ==
  /\ decls = ReferenceSchema /\ FromNames("user")
  /\ stmt.expr = <<FAll>>
  /\ stmt.fetch = <<Path1("tags"), Path1("best_friend")>>
  /\ SeveralRecordFetches
  /\ result = Err("UnsupportedOperation")

C26_BestFriendAndTagsFails ==
  /\ decls = ReferenceSchema /\ FromNames("user")
  /\ stmt.expr = <<FAll>>
  /\ stmt.fetch = <<Path1("best_friend"), Path1("tags")>>
  /\ SeveralRecordFetches
  /\ result = Err("UnsupportedOperation")

(***************************************************************************)
(* C27: every explicit projection item whose expression is not an idiom, a *)
(* built-in function call such as count() or array::len(tags), a literal,  *)
(* a subquery, aborts SELECT analysis with UnsupportedOperation;           *)
(* analyze_select never consults the function signature table.             *)
(* The FROM clause and the projection list are taken in order and the      *)
(* first failure is the one reported: behind an absent table or an item    *)
(* that does not resolve, the analysis fails with that error.              *)
(***************************************************************************)
\* item i of the projection list is an expression that is no idiom
NonIdiomAt(i) ==
  /\ Analyzed
  /\ stmt.expr[i].f = "Single" /\ stmt.expr[i].v # "Idiom"

\* no call of analyze_function has been made
FunctionTableUntouched == func = NoFunction /\ typed = NoTyped

\* the claim as stated: UnsupportedOperation whatever else the statement holds
C27_NonIdiomItemIsUnsupported ==
  /\ FunctionTableUntouched
  /\ \A i \in DOMAIN stmt.expr :
       NonIdiomAt(i) => result = Err("UnsupportedOperation")

\* the claim with the order of resolution
C27_NonIdiomItemFailsInOrder ==
  /\ FunctionTableUntouched
  /\ \A i \in DOMAIN stmt.expr :
       NonIdiomAt(i) =>
         /\ ~result.ok /\ result.ty = NoType
         /\ (Base.ok /\ EarlierItemsResolve(i)) => result.err = "UnsupportedOperation"

C27_CountBehindAgeIsUnsupported ==
  /\ Analyzed /\ decls = ReferenceSchema /\ FromNames("user")
  /\ stmt.expr = <<FIdiom(Path1("age"), NoAlias), FFunction("count")>>
  /\ NonIdiomAt(2) /\ Base.ok /\ EarlierItemsResolve(2)
  /\ result = Err("UnsupportedOperation")
  /\ FunctionTableUntouched

(***************************************************************************)
(* C28: a projected field is suppressed by OMIT if and only if some OMIT   *)
(* idiom's first part is a field segment equal to the field's resulting    *)
(* name; the remaining parts of an OMIT idiom are ignored, so              *)
(* OMIT address.city removes the whole address field from the result.      *)
(* Stated of the projected Object as the result carries it: no FETCH, no   *)
(* VALUE unwrap.                                                           *)
(***************************************************************************)
\* the resulting names of the projected fields, OMIT aside
ProjectedNames == {n \in YieldedNames : \E j \in DOMAIN stmt.expr : YieldsName(j, n)}

\* some OMIT idiom starts with a field segment of name n
FirstPartNames(n) ==
  \E k \in DOMAIN stmt.omit :
    Len(stmt.omit[k]) > 0 /\ stmt.omit[k][1] = PField(n)

C28_OmitSuppressesByFirstPart ==
  KeepsProjection =>
    /\ DOMAIN Inner.fields \subseteq ProjectedNames
    /\ \A n \in ProjectedNames : n \notin DOMAIN Inner.fields <=> FirstPartNames(n)

C28_OmitCityOfAddressRemovesAddress ==
  /\ KeepsProjection /\ decls = ProfileSchema /\ FromNames("user")
  /\ stmt.expr = <<FAll>>
  /\ stmt.omit = <<Path2("address", "city"), <<Out("tags")>> >>
  /\ ProjectedNames = {"name", "address", "tags", "posts", "best_friend"}
  /\ DOMAIN Inner.fields = {"name", "tags", "posts", "best_friend"}

(***************************************************************************)
(* C29: FETCH expansion terminates on cyclic schemas and expands exactly   *)
(* one level: each RecordRef(t) in the projected result is replaced by t's *)
(* schema Object as it stands, and the RecordRefs inside that inlined      *)
(* Object (e.g. best_friend: record<user> inside the inlined user) remain  *)
(* RecordRef.                                                              *)
(* A RecordRef inside an Optional is not replaced (C7), and every FETCH    *)
(* path that resolves expands the whole result once more: behind           *)
(* FETCH best_friend, best_friend.best_friend the inlined user holds an    *)
(* inlined user.                                                           *)
(***************************************************************************)
\* a successful statement with FETCH paths whose result carries the expanded Object
FetchExpands ==
  /\ Analyzed /\ result.ok
  /\ Len(stmt.fetch) >= 1
  /\ ~(stmt.value /\ Len(stmt.expr) = 1)

\* the claim as stated: one level, every RecordRef replaced
C29_FetchExpandsExactlyOneLevel ==
  FetchExpands => Replaced(Projected.ty, Inner)

\* ty with every RecordRef outside an Optional replaced by the Object of its
\* table as the schema holds it
RECURSIVE OneLevel(_)
OneLevel(ty) ==
  CASE ty.tag = "Record" -> schema.ast.fields[ty.table].ast
    [] ty.tag = "Object" -> Object([n \in DOMAIN ty.fields |-> [ty.fields[n] EXCEPT !.ast = OneLevel(@)]])
    [] ty.tag = "Array" -> Array(OneLevel(ty.elem), ty.len)
    [] ty.tag = "Union" -> Union([k \in DOMAIN ty.variants |-> OneLevel(ty.variants[k])])
    [] OTHER -> ty

RECURSIVE Levels(_, _)
Levels(ty, n) == IF n = 0 THEN ty ELSE Levels(OneLevel(ty), n - 1)

\* what the code does: one level for each FETCH path, Optionals left aside
C29_EachPathExpandsOneLevelOutsideOptionals ==
  FetchExpands => Inner = Levels(Projected.ty, Len(stmt.fetch))

\* one path on the cyclic table user: the inlined user keeps its RecordRef
C29_BestFriendOfBestFriendStaysRecord ==
  /\ FetchExpands /\ decls = ProfileSchema
  /\ stmt.expr = <<FAll>> /\ stmt.fetch = <<Path1("best_friend")>>
  /\ Inner.fields["best_friend"].ast = schema.ast.fields["user"].ast
  /\ Inner.fields["best_friend"].ast.fields["best_friend"].ast = Record("user")

\* two paths: the inlined user holds an inlined user
C29_TwoPathsExpandTwoLevels ==
  /\ FetchExpands /\ decls = ProfileSchema
  /\ stmt.expr = <<FAll>>
  /\ stmt.fetch = <<Path1("best_friend"), Path2("best_friend", "best_friend")>>
  /\ Inner.fields["best_friend"].ast.fields["best_friend"].ast = schema.ast.fields["user"].ast
  /\ ~Replaced(Projected.ty, Inner)

\* one path, a RecordRef inside an Optional: it stays
C29_MentorStaysRecord ==
  /\ FetchExpands /\ decls = GraphSchema /\ FromNames("person")
  /\ stmt.expr = <<FAll>> /\ stmt.fetch = <<Path1("home")>>
  /\ Inner.fields["mentor"].ast = Option(Record("person"))
  /\ ~Replaced(Projected.ty, Inner)

(***************************************************************************)
(* C30: for every Duration d obtainable from Duration::from_str, parsing   *)
(* the Display string of d yields a Duration equal to d: Display and       *)
(* FromStr are inverse on values composed of years, weeks, days, hours,    *)
(* minutes, seconds and nanoseconds.                                       *)
(* Display takes the days from the seconds modulo one week, not from what  *)
(* the years and weeks leave: a year is 52 weeks and a day, so one year is *)
(* written 1y1d and comes back a day longer.                               *)
(***************************************************************************)
\* the Duration has been written out and parsed again
RoundTripped == back # NoDuration

\* the days the years and the weeks leave
days_left(secs) == ((secs % 31536000) % 604800) \div 86400

\* the claim as stated
C30_DisplayAndFromStrAreInverse ==
  RoundTripped => back = dur

\* what the code does: the text parses, to d where Display shows the days
\* that are left and to another Duration where it does not; below one year
\* it always does
C30_InverseWhereTheDaysAreRight ==
  RoundTripped =>
    /\ back.st = "Ok"
    /\ back = dur <=> days_shown(dur.secs) = days_left(dur.secs)
    /\ dur.secs < 31536000 => back = dur

C30_OneYearComesBackADayLonger ==
  /\ RoundTripped
  /\ input = "1y"
  /\ dur = DOk(StdDuration(31536000, 0))
  /\ shown = "1y1d"
  /\ back = DOk(StdDuration(31622400, 0))

C30_MixedUnitsComeBack ==
  /\ RoundTripped
  /\ input = "1500ms7us"
  /\ dur = DOk(StdDuration(1, 500007000))
  /\ shown = "1s500007000ns"
  /\ back = dur

====
